---- MODULE Spec2Model ----
(***************************************************************************)
(* Verification model of the Merkle-tree indexer: the incremental Merkle   *)
(* tree (tree/incremental.rs), the sparse Merkle tree                      *)
(* (tree/sparse_merkle_tree.rs), and the persistent storage layer          *)
(* (storage/persistent.rs, storage/wal.rs, storage/metadata.rs,            *)
(* storage/unified_tree_storage.rs), and the binary encoding of a          *)
(* commitment (tree/commitment.rs).                                        *)
(*                                                                         *)
(* Hash values.  A 32-byte digest cannot be computed by TLC, so a digest   *)
(* is a term: a sequence of integers that starts with a negative tag and   *)
(* is closed by -9.  Byte strings supplied by callers are sequences over   *)
(* 0..255.  Two terms are equal exactly when they were built from equal    *)
(* arguments (collision resistance of Poseidon / SHA-256 on the bytes it   *)
(* is actually given).  What the code does to the bytes BEFORE hashing     *)
(* (truncation to 31 bytes, zero padding, the +1 on the first byte) is     *)
(* modelled as written, so collisions caused by that preprocessing exist   *)
(* in the model too.                                                       *)
(***************************************************************************)
EXTENDS Integers, Sequences, FiniteSets, TLC

VARIABLES
    \* ---- IncrementalMerkleTree (tree/incremental.rs) ----
    depth,        \* IncrementalMerkleTree.depth
    leaves,       \* IncrementalMerkleTree.serializable.leaves
    frontier,     \* IncrementalMerkleTree.frontier (<<>> after a bare deserialize)
    imtRes,       \* result of the last IMT call: [op, arg, ret, val]
    imtUpdated,   \* history: update() has succeeded on this tree
    \* ---- SparseMerkleTree (tree/sparse_merkle_tree.rs) ----
    smtDepth,     \* SparseMerkleTree.depth
    smtRoot,      \* SparseMerkleTree.serializable.root
    smtDigest,    \* SparseMerkleTree.root_digest
    smtKV,        \* history: the (key, value) pairs inserted successfully so far
    smtRes,       \* result of the last SMT call: [op, key, value, ret]
    \* ---- PersistentMerkleTree (storage/persistent.rs): the data directory ----
    enable_wal,   \* StorageConfig.enable_wal used for this directory
    dataFile,     \* leaves.dat: page id -> page (the first MMAP_PAGES are mapped)
    metaFile,     \* metadata.dat: <<>> (empty) or <<record>>
    walFile,      \* wal.log: the frames written since the last truncate
    \* ---- PersistentMerkleTree: the process ----
    pmtOpen,      \* a PersistentMerkleTree value exists in the process
    metadata,     \* PersistentMerkleTree.metadata (in memory)
    memLeaves,    \* PersistentMerkleTree.memory_tree.serializable.leaves
    cache,        \* PersistentMerkleTree.cache: [pages, access_order, max_size]
    pmtPc,        \* position inside append/update: "idle" or the next step
    pmtOp,        \* the call in progress: [name, index, leaf_hash, writes]
    pmtRes,       \* result of the last call
    \* ---- PersistentMerkleTree: history ----
    pmtSeen,      \* root() and len() observed when the tree was last dropped
    pmtLogged,    \* leaves after applying every mutation whose WAL frame was written
    pmtClean,     \* no call has been cut short by a kill or an I/O error so far
    pmtOps,       \* number of append/update calls started so far
    pmtDone,      \* the leaves of the calls that returned Ok: one per append, updates in place
    \* ---- IncrementalTreeStorage (storage/unified_tree_storage.rs) ----
    stOpen,       \* an IncrementalTreeStorage value exists in the process
    stTree,       \* IncrementalTreeStorage.tree
    stCopy,       \* a tree obtained by serializing and deserializing stTree
    treeFile,     \* incremental_tree.dat
    treeMetaFile, \* incremental_tree_metadata.dat
    stRes,        \* result of the last call
    stSeen,       \* history: root() and len() at the last save()
    \* ---- Commitment::to_bytes / from_bytes (tree/commitment.rs) ----
    cmtValue,     \* the Commitment at hand
    cmtData,      \* the byte buffer at hand
    cmtRes,       \* result of the last call: [op, ret, commitment]
    \* ---- leaves.dat behind write_leaf_to_disk / read_leaf_from_disk, and a
    \* ---- PageCache (storage/cache.rs), on their own ----
    pgFile,       \* leaves.dat: page id -> page
    pgCache,      \* the PageCache: [pages, access_order, max_size]
    pgWritten,    \* history: leaf index -> the slot last written by a call that returned Ok
    pgRecent,     \* history: the cached page ids, least recently accessed first
    pgRes         \* result of the last call

imtVars == <<depth, leaves, frontier, imtRes, imtUpdated>>

smtVars == <<smtDepth, smtRoot, smtDigest, smtKV, smtRes>>

pmtDiskVars == <<enable_wal, dataFile, metaFile, walFile>>

pmtMemVars == <<pmtOpen, metadata, memLeaves, cache, pmtPc, pmtOp, pmtRes>>

pmtHistVars == <<pmtSeen, pmtLogged, pmtClean, pmtOps, pmtDone>>

pmtVars == <<pmtDiskVars, pmtMemVars, pmtHistVars>>

vars == <<depth, leaves, frontier, imtRes, imtUpdated,
          smtDepth, smtRoot, smtDigest, smtKV, smtRes,
          enable_wal, dataFile, metaFile, walFile,
          pmtOpen, metadata, memLeaves, cache, pmtPc, pmtOp, pmtRes,
          pmtSeen, pmtLogged, pmtClean, pmtOps, pmtDone,
          stOpen, stTree, stCopy, treeFile, treeMetaFile, stRes, stSeen,
          cmtValue, cmtData, cmtRes,
          pgFile, pgCache, pgWritten, pgRecent, pgRes>>

codecVars == <<cmtValue, cmtData, cmtRes>>

pageVars == <<pgFile, pgCache, pgWritten, pgRecent, pgRes>>

stVars == <<stOpen, stTree, stCopy, treeFile, treeMetaFile, stRes, stSeen>>

\* What an operation of one subsystem leaves alone: the other subsystems.
notIMT == <<smtVars, pmtVars, stVars, codecVars, pageVars>>

notSMT == <<imtVars, pmtVars, stVars, codecVars, pageVars>>

notPMT == <<imtVars, smtVars, stVars, codecVars, pageVars>>

notST == <<imtVars, smtVars, pmtVars, codecVars, pageVars>>

notCodec == <<imtVars, smtVars, pmtVars, stVars, pageVars>>

notPages == <<imtVars, smtVars, pmtVars, stVars, codecVars>>

-----------------------------------------------------------------------------
(* Bounds of the model *)

\* Largest tree depth explored (the code allows 1..63).
MaxDepth == 2

\* Largest SparseMerkleTree depth explored (with_depth takes any usize).
MaxSmtDepth == 2

\* Depth of the PersistentMerkleTree.  The code fixes it to
\* DEFAULT_TREE_DEPTH = 20 (2^20 leaves); the model scales it down.
PmtDepth == 1

\* Leaf slots per page of leaves.dat.  The code has PAGE_SIZE / (LEAF_SIZE + 1)
\* = 124; the model scales it down so that a small tree spans several pages.
LeavesPerPage == 1

\* Pages of leaves.dat covered by the memory mapping.  The code maps 1 MB,
\* 256 pages; the model scales it down so that both the mapped path and the
\* cached path of write_leaf_to_disk / read_leaf_from_disk are taken.
MmapPages == 1

\* PageCache.max_size = cache_size / PAGE_SIZE explored.
CachePages == 1

\* append/update calls started per behaviour of the persistent tree.
MaxPmtOps == 2

\* Longest PageCache.access_order before an insert (the Vec is unbounded in
\* the code: every insert of a cached page id makes it longer).
MaxAccessOrder == 4

-----------------------------------------------------------------------------
(* Generic helpers *)

Min(a, b) == IF a < b THEN a ELSE b

\* 0-based indexing into a sequence, as Rust's v[i].
At(s, i) == s[i + 1]

\* s with the 0-based position i replaced by v.
SetAt(s, i, v) == [j \in 1..Len(s) |-> IF j = i + 1 THEN v ELSE s[j]]

RECURSIVE Pow2(_)
Pow2(n) == IF n = 0 THEN 1 ELSE 2 * Pow2(n - 1)

\* vec![v; n]
Repeat(v, n) == [i \in 1..n |-> v]

-----------------------------------------------------------------------------
(* utils/poseidon_hash.rs *)

\* Width of the field buffer in PoseidonHasher::hash_bytes.
FIELD_BYTES == 31

\* A digest term (the output of a hash), as opposed to caller-supplied bytes.
IsDigest(x) == Len(x) > 0 /\ x[1] < 0

\* hashv(Bn254X5, BigEndian, &[a])
hashv1(a) == <<-1>> \o a \o <<-9>>

\* hashv(Bn254X5, BigEndian, &[a, b])
hashv2(a, b) == <<-2>> \o a \o <<-3>> \o b \o <<-9>>

\* The 31-byte buffer built by PoseidonHasher::hash_bytes: the first
\* min(len, 31) input bytes, zero padded, first byte wrapping_add(1).
\* For a 32-byte digest the buffer is its 31-byte prefix; the term stands
\* for that prefix (two distinct digests do not share 31 bytes).
field_input(input) ==
    IF IsDigest(input) THEN input
    ELSE LET copy_len == Min(Len(input), FIELD_BYTES)
             buf == [i \in 1..FIELD_BYTES |-> IF i <= copy_len THEN input[i] ELSE 0]
         IN  [i \in 1..FIELD_BYTES |-> IF i = 1 THEN (buf[1] + 1) % 256 ELSE buf[i]]

\* PoseidonHasher::hash_bytes / internal::hash_bytes
hash_bytes(input) == hashv1(field_input(input))

\* PoseidonHasher::hash_pair / internal::hash_pair
hash_pair(a, b) == hashv2(hash_bytes(a), hash_bytes(b))

\* PoseidonHasher::hash_two_slices / internal::hash_two_slices
hash_two_slices(a, b) == hashv2(hash_bytes(a), hash_bytes(b))

\* PoseidonHasher::hash_slice / internal::hash_slice
hash_slice(input) == hash_bytes(input)

-----------------------------------------------------------------------------
(* tree/incremental.rs *)

\* compute_zero_hashes with a plausible slip: every higher level pairs
\* zero_hashes[0] with itself instead of zero_hashes[i].
RECURSIVE compute_zero_hashes_base(_)
compute_zero_hashes_base(d) ==
    IF d = 0 THEN << hash_bytes(<<0>>) >>
    ELSE LET prev == compute_zero_hashes_base(d - 1)
         IN  Append(prev, hash_pair(At(prev, 0), At(prev, 0)))

\* IncrementalMerkleTree::compute_zero_hashes: a vector of d + 1 hashes.
RECURSIVE compute_zero_hashes(_)
compute_zero_hashes(d) ==
    IF d = 0 THEN << hash_bytes(<<0>>) >>
    ELSE LET prev == compute_zero_hashes(d - 1)
         IN  Append(prev, hash_pair(At(prev, d - 1), At(prev, d - 1)))

\* self.zero_hashes of the tree in the current state.
zero_hashes == compute_zero_hashes(depth)

\* IncrementalMerkleTree::zero_hash: self.zero_hashes.get(level).copied()
zero_hash(level) ==
    IF level < Len(zero_hashes)
    THEN [some |-> TRUE, value |-> At(zero_hashes, level)]
    ELSE [some |-> FALSE]

\* self.capacity
capacity == Pow2(depth)

\* IncrementalMerkleTree::len
len == Len(leaves)

\* is_full with a plausible slip: `>` instead of `>=`.
is_full_gt == Len(leaves) > capacity

\* IncrementalMerkleTree::is_full
is_full == Len(leaves) >= capacity

\* next_level_of with a plausible slip: the missing right sibling is always
\* taken from level 0 (zero_hashes[0]) instead of zero_hashes[lvl].
next_level_pad0(level_nodes, zh, lvl) ==
    [j \in 1..((Len(level_nodes) + 1) \div 2) |->
        LET i == 2 * (j - 1)
        IN  hash_pair(At(level_nodes, i),
                      IF i + 1 < Len(level_nodes) THEN At(level_nodes, i + 1)
                      ELSE At(zh, 0))]

\* One pass of the inner loop of root() and prove(): the next level up,
\* pairing node i with node i + 1, or with zero_hashes[lvl] when it is last.
next_level_of(level_nodes, zh, lvl) ==
    [j \in 1..((Len(level_nodes) + 1) \div 2) |->
        LET i == 2 * (j - 1)
            left == At(level_nodes, i)
            right == IF i + 1 < Len(level_nodes)
                     THEN At(level_nodes, i + 1)
                     ELSE At(zh, lvl)
        IN  hash_pair(left, right)]

\* The `for lvl in 0..self.depth` loop of root().
RECURSIVE reduce_levels(_, _, _, _)
reduce_levels(level_nodes, zh, lvl, d) ==
    IF lvl >= d THEN level_nodes
    ELSE reduce_levels(next_level_of(level_nodes, zh, lvl), zh, lvl + 1, d)

\* root_of with a plausible slip: root() returns the top of the frontier
\* kept by append (frontier[depth]) instead of reducing the leaves.
root_of_frontier(lv, d) == At(frontier, d)

\* IncrementalMerkleTree::root on a tree with leaves lv and depth d.
root_of(lv, d) ==
    LET zh == compute_zero_hashes(d)
    IN  IF lv = <<>> THEN At(zh, d)
        ELSE LET top == reduce_levels(lv, zh, 0, d)
             IN  IF Len(top) > 0 THEN At(top, 0) ELSE At(zh, d)

\* IncrementalMerkleTree::root
root == root_of(leaves, depth)

\* The `for level in 0..self.depth` loop of prove(): the siblings collected
\* from `level` upwards.
RECURSIVE prove_levels(_, _, _, _, _)

\* prove_levels with a plausible slip: the sibling index is idx + 1 for
\* every node (right neighbour) instead of idx ^ 1.
RECURSIVE prove_levels_right(_, _, _, _, _)
prove_levels_right(current_level, idx, zh, level, d) ==
    IF level >= d THEN <<>>
    ELSE LET sibling_idx == idx + 1
             sibling_hash == IF sibling_idx < Len(current_level)
                             THEN At(current_level, sibling_idx)
                             ELSE At(zh, level)
         IN  <<sibling_hash>> \o
             prove_levels_right(next_level_of(current_level, zh, level),
                                idx \div 2, zh, level + 1, d)

\* prove_levels with a plausible slip: a missing sibling is always taken as
\* zero_hashes[0] instead of zero_hashes[level].
RECURSIVE prove_levels_zero0(_, _, _, _, _)
prove_levels_zero0(current_level, idx, zh, level, d) ==
    IF level >= d THEN <<>>
    ELSE LET sibling_idx == IF idx % 2 = 0 THEN idx + 1 ELSE idx - 1
             sibling_hash == IF sibling_idx < Len(current_level)
                             THEN At(current_level, sibling_idx)
                             ELSE At(zh, 0)
         IN  <<sibling_hash>> \o
             prove_levels_zero0(next_level_of(current_level, zh, level),
                                idx \div 2, zh, level + 1, d)

prove_levels(current_level, idx, zh, level, d) ==
    IF level >= d THEN <<>>
    ELSE LET sibling_idx == IF idx % 2 = 0 THEN idx + 1 ELSE idx - 1   \* idx ^ 1
             sibling_hash == IF sibling_idx < Len(current_level)
                             THEN At(current_level, sibling_idx)
                             ELSE At(zh, level)
         IN  <<sibling_hash>> \o
             prove_levels(next_level_of(current_level, zh, level),
                          idx \div 2, zh, level + 1, d)

\* IncrementalMerkleTree::prove: Err(LeafNotAppended) or a MerkleProof.
prove_of(lv, d, leaf_index) ==
    IF leaf_index >= Len(lv)
    THEN [ok |-> FALSE, err |-> "LeafNotAppended"]
    ELSE [ok |-> TRUE,
          leaf_index |-> leaf_index,
          leaf |-> At(lv, leaf_index),
          siblings |-> prove_levels(lv, leaf_index, compute_zero_hashes(d), 0, d)]

prove(leaf_index) == prove_of(leaves, depth, leaf_index)

\* The frontier loop of append() and rebuild_frontier(), from `level` on,
\* over a tree whose leaf vector is lv and which the loop sees as having
\* n leaves; returns the frontier.
RECURSIVE bubble_up(_, _, _, _, _, _, _, _)
bubble_up(fr, lv, n, zh, current_hash, pos, level, d) ==
    IF level >= d THEN fr
    ELSE LET parent ==
                 IF pos % 2 = 0
                 THEN LET right == IF pos + 1 < n THEN At(lv, pos + 1)
                                   ELSE At(zh, level)
                      IN  hash_pair(current_hash, right)
                 ELSE LET left == At(fr, level)
                      IN  hash_pair(left, current_hash)
         IN  bubble_up(SetAt(fr, level + 1, parent), lv, n, zh,
                       parent, pos \div 2, level + 1, d)

\* append_leaves with a plausible slip: the new leaf is inserted at the
\* front of the vector (insert(0, ..)) instead of pushed at its end.
append_leaves_front(lv, leaf_data) == <<hash_bytes(leaf_data)>> \o lv

\* The state of the tree after a successful append(leaf_data).
append_leaves(lv, leaf_data) == Append(lv, hash_bytes(leaf_data))

append_frontier(fr, lv, d, leaf_data) ==
    LET leaf_hash == hash_bytes(leaf_data)
        index == Len(lv)
        lv2 == Append(lv, leaf_hash)
    IN  bubble_up(fr, lv2, Len(lv2), compute_zero_hashes(d), leaf_hash, index, 0, d)

\* IncrementalMerkleTree::rebuild_frontier: the `for i in 0..num_leaves` loop.
RECURSIVE rebuild_from(_, _, _, _, _)
rebuild_from(fr, lv, zh, i, d) ==
    IF i >= Len(lv) THEN fr
    ELSE rebuild_from(bubble_up(fr, lv, Len(lv), zh, At(lv, i), i, 0, d),
                      lv, zh, i + 1, d)

rebuild_frontier_of(lv, d) ==
    LET zh == compute_zero_hashes(d)
    IN  rebuild_from(Repeat(At(zh, 0), d + 1), lv, zh, 0, d)

-----------------------------------------------------------------------------
(* tree/proof.rs *)

\* MerkleProof::verify_proof
RECURSIVE verify_fold(_, _, _)
verify_fold(computed, idx, siblings) ==
    IF siblings = <<>> THEN computed
    ELSE verify_fold(IF idx % 2 = 0
                     THEN hash_pair(computed, Head(siblings))
                     ELSE hash_pair(Head(siblings), computed),
                     idx \div 2, Tail(siblings))

verify_proof(leaf, leaf_index, siblings, rt) ==
    verify_fold(leaf, leaf_index, siblings) = rt

\* MerkleProof::verify
verify(proof, rt) == verify_proof(proof.leaf, proof.leaf_index, proof.siblings, rt)

-----------------------------------------------------------------------------
(* lib_old.rs: the recursive reference definition of a node hash *)

\* IncrementalMerkleTree::node_hash_at of lib_old.rs: the hash of node
\* `index` at `level`, a missing leaf counting as zero_hashes[0].
RECURSIVE node_hash_at(_, _, _, _, _)
node_hash_at(lv, zh, cap, level, index) ==
    IF level = 0
    THEN IF index < cap /\ index < Len(lv) THEN At(lv, index) ELSE At(zh, 0)
    ELSE hash_pair(node_hash_at(lv, zh, cap, level - 1, index * 2),
                   node_hash_at(lv, zh, cap, level - 1, index * 2 + 1))

-----------------------------------------------------------------------------
(* tree/common.rs and tree/sparse_merkle_tree.rs: hashing *)

\* zero_digest(): 32 zero bytes (a literal byte string, not a hash output).
zero_digest == Repeat(0, 32)

\* hash_two_things: the labels are ignored by the code.
hash_two_things(v1, v2) == hash_two_slices(v1, v2)

\* smt_utils::hash_kv
hash_kv(k, v) == hash_two_things(k, v)

\* smt_utils::hash_branch
hash_branch(l, r) == hash_two_things(l, r)

\* smt_utils::get_digest
get_digest(value) == hash_slice(value)

\* The bytes of a digest, read by BitVec::from_slice.  Poseidon's output is
\* not computable here; the bytes of the hashed 31-byte buffer stand in for
\* it, so that the bit string is a fixed function of the digest and equal
\* digests have equal bits.
digest_bytes(d) == SubSeq(d, 2, 1 + FIELD_BYTES)

\* BitVec::<u8, Lsb0>::from_slice(digest)[i]
bit_at(d, i) == (At(digest_bytes(d), i \div 8) \div Pow2(i % 8)) % 2 = 1

\* binary_key[i] for a key
key_bit(key, i) == bit_at(get_digest(key), i)

-----------------------------------------------------------------------------
(* tree/sparse_merkle_tree.rs: nodes *)

\* Node::Empty
Empty == [type |-> "Empty"]

\* Node::new_leaf
new_leaf(key, value) == [type |-> "Leaf", key |-> key, value |-> value]

\* Node::get_hash / SerializableNode::get_hash
get_hash(node) ==
    CASE node.type = "Leaf" -> hash_kv(node.key, node.value)
      [] node.type = "Branch" -> node.hash
      [] OTHER -> zero_digest

\* Branch::new_branch
new_branch(left, right) ==
    [type |-> "Branch", left |-> left, right |-> right,
     hash |-> hash_branch(get_hash(left), get_hash(right))]

\* DEFAULT_VALUE_FOR_MISSING
DEFAULT_VALUE_FOR_MISSING == <<>>

-----------------------------------------------------------------------------
(* SparseMerkleTree::get and check_proof *)

\* The `while current_node_is_branch` loop of get(): the terminal node and
\* the sibling hashes in root-to-leaf order.
RECURSIVE get_descend(_, _, _, _)

\* get_descend with a plausible slip: the hash pushed is that of the child
\* descended into instead of its sibling.
RECURSIVE get_descend_own(_, _, _, _)
get_descend_own(current_node, key, height, sibling_hashes) ==
    IF current_node.type # "Branch"
    THEN [node |-> current_node, sibling_hashes |-> sibling_hashes]
    ELSE IF ~key_bit(key, height)
         THEN get_descend_own(current_node.left, key, height + 1,
                              Append(sibling_hashes, get_hash(current_node.left)))
         ELSE get_descend_own(current_node.right, key, height + 1,
                              Append(sibling_hashes, get_hash(current_node.right)))

get_descend(current_node, key, height, sibling_hashes) ==
    IF current_node.type # "Branch"
    THEN [node |-> current_node, sibling_hashes |-> sibling_hashes]
    ELSE IF ~key_bit(key, height)
         THEN get_descend(current_node.left, key, height + 1,
                          Append(sibling_hashes, get_hash(current_node.right)))
         ELSE get_descend(current_node.right, key, height + 1,
                          Append(sibling_hashes, get_hash(current_node.left)))

\* sibling_hashes.reverse()
Reverse(s) == [i \in 1..Len(s) |-> s[Len(s) + 1 - i]]

\* get_of with a plausible slip: the value of the leaf at the end of the
\* path is returned without comparing its key with the key asked for.
get_of_any(rootNode, key) ==
    LET r == get_descend(rootNode, key, 0, <<>>)
        pf == [sibling_hashes |-> Reverse(r.sibling_hashes)]
    IN  IF r.node.type = "Leaf"
        THEN [some |-> TRUE, value |-> r.node.value, proof |-> pf]
        ELSE [some |-> FALSE, proof |-> pf]

\* SparseMerkleTree::get: (Option<V>, proof); None is [some |-> FALSE].
get_of(rootNode, key) ==
    LET r == get_descend(rootNode, key, 0, <<>>)
        pf == [sibling_hashes |-> Reverse(r.sibling_hashes)]
    IN  IF r.node.type = "Leaf" /\ r.node.key = key
        THEN [some |-> TRUE, value |-> r.node.value, proof |-> pf]
        ELSE [some |-> FALSE, proof |-> pf]

\* The for_each of check_proof: fold the sibling hashes onto root_hash.
RECURSIVE check_fold(_, _, _, _)

\* check_fold with a plausible slip: the key bit is indexed by idx, the
\* position in the (reversed) sibling list, instead of len - idx - 1.
RECURSIVE check_fold_idx(_, _, _, _)
check_fold_idx(root_hash, key, sibling_hashes, idx) ==
    IF idx >= Len(sibling_hashes) THEN root_hash
    ELSE LET sibling_hash == At(sibling_hashes, idx)
             b == key_bit(key, idx)
         IN  check_fold_idx(IF b THEN hash_branch(sibling_hash, root_hash)
                            ELSE hash_branch(root_hash, sibling_hash),
                            key, sibling_hashes, idx + 1)

check_fold(root_hash, key, sibling_hashes, idx) ==
    IF idx >= Len(sibling_hashes) THEN root_hash
    ELSE LET sibling_hash == At(sibling_hashes, idx)
             b == key_bit(key, Len(sibling_hashes) - idx - 1)
         IN  check_fold(IF b THEN hash_branch(sibling_hash, root_hash)
                        ELSE hash_branch(root_hash, sibling_hash),
                        key, sibling_hashes, idx + 1)

\* SparseMerkleTree::check_proof: TRUE for Some(()), FALSE for None.
\* res is [some |-> TRUE, value |-> v] or [some |-> FALSE].
check_proof(key, res, pf, comm) ==
    LET v == IF res.some THEN res.value ELSE DEFAULT_VALUE_FOR_MISSING
    IN  check_fold(hash_kv(key, v), key, pf.sibling_hashes, 0) = comm

-----------------------------------------------------------------------------
(* SparseMerkleTree::insert *)

\* The first `while current_node_is_branch` loop of insert(): the branches
\* passed (ancestor_nodes), the terminal node and its height.
RECURSIVE insert_descend(_, _, _, _)
insert_descend(current_node, key, height, ancestor_nodes) ==
    IF current_node.type # "Branch"
    THEN [node |-> current_node, height |-> height,
          ancestor_nodes |-> ancestor_nodes]
    ELSE insert_descend(IF ~key_bit(key, height) THEN current_node.left
                        ELSE current_node.right,
                        key, height + 1, Append(ancestor_nodes, current_node))

\* The `while d == t` loop of insert(): pushes a Branch(Empty, Empty) frame
\* per common bit; panics when height + 1 >= depth.
RECURSIVE insert_extend(_, _, _, _, _)
insert_extend(key, leaf_key, height, ancestor_nodes, d) ==
    IF key_bit(key, height) # key_bit(leaf_key, height)
    THEN [panic |-> FALSE, height |-> height, ancestor_nodes |-> ancestor_nodes]
    ELSE IF height + 1 >= d
         THEN [panic |-> TRUE]
         ELSE insert_extend(key, leaf_key, height + 1,
                            Append(ancestor_nodes, new_branch(Empty, Empty)), d)

\* The `while height > 0` loop of insert(): rehash the ancestors bottom-up.
RECURSIVE insert_unwind(_, _, _, _)

\* insert_unwind with a plausible slip: the side is chosen by
\* binary_key[height] instead of binary_key[height - 1].
RECURSIVE insert_unwind_off(_, _, _, _)
insert_unwind_off(new_root, key, height, ancestor_nodes) ==
    IF height <= 0 THEN new_root
    ELSE LET d == key_bit(key, height)
             p == At(ancestor_nodes, height - 1)
             np == IF ~d THEN new_branch(new_root, p.right)
                   ELSE new_branch(p.left, new_root)
         IN  insert_unwind_off(np, key, height - 1, ancestor_nodes)

\* insert_unwind with a plausible slip: the `if !d` test is inverted, so the
\* rebuilt child replaces the sibling of the child the path went through.
RECURSIVE insert_unwind_flip(_, _, _, _)
insert_unwind_flip(new_root, key, height, ancestor_nodes) ==
    IF height <= 0 THEN new_root
    ELSE LET d == key_bit(key, height - 1)
             p == At(ancestor_nodes, height - 1)
             np == IF d THEN new_branch(new_root, p.right)
                   ELSE new_branch(p.left, new_root)
         IN  insert_unwind_flip(np, key, height - 1, ancestor_nodes)

\* insert_unwind with a plausible slip: the child pointer of the ancestor is
\* replaced in place and the ancestor keeps the hash it had.
RECURSIVE insert_unwind_stale(_, _, _, _)
insert_unwind_stale(new_root, key, height, ancestor_nodes) ==
    IF height <= 0 THEN new_root
    ELSE LET d == key_bit(key, height - 1)
             p == At(ancestor_nodes, height - 1)
             np == IF ~d THEN [p EXCEPT !.left = new_root]
                   ELSE [p EXCEPT !.right = new_root]
         IN  insert_unwind_stale(np, key, height - 1, ancestor_nodes)

insert_unwind(new_root, key, height, ancestor_nodes) ==
    IF height <= 0 THEN new_root
    ELSE LET d == key_bit(key, height - 1)
             p == At(ancestor_nodes, height - 1)
             np == IF ~d THEN new_branch(new_root, p.right)
                   ELSE new_branch(p.left, new_root)
         IN  insert_unwind(np, key, height - 1, ancestor_nodes)

\* SparseMerkleTree::insert on a tree with root node rootNode and depth d:
\* [panic |-> TRUE] or the new root node.
insert_of(rootNode, d, key, value) ==
    LET w == insert_descend(rootNode, key, 0, <<>>)
        fresh == new_leaf(key, value)
    IN  IF w.node.type = "Leaf" /\ w.node.key # key
        THEN LET e == insert_extend(key, w.node.key, w.height, w.ancestor_nodes, d)
             IN  IF e.panic THEN [panic |-> TRUE]
                 ELSE LET pair == IF ~key_bit(key, e.height)
                                  THEN new_branch(fresh, w.node)
                                  ELSE new_branch(w.node, fresh)
                      IN  [panic |-> FALSE,
                           root |-> insert_unwind(pair, key, e.height, e.ancestor_nodes)]
        ELSE [panic |-> FALSE,
              root |-> insert_unwind(fresh, key, w.height, w.ancestor_nodes)]

-----------------------------------------------------------------------------
(* Inputs of the SMT operations *)

\* Keys (byte strings).  Their digests' leading bits are, LSB first:
\*   <<0>>: 1000   <<1>>: 0100   <<2>>: 1100   <<3>>: 0010   <<7>>: 0001
\* and <<1, 0>> fills the 31-byte Poseidon buffer exactly like <<1>>, so the
\* two have the same digest.
SmtKeys == { <<0>>, <<1>>, <<2>>, <<3>>, <<7>>, <<1, 0>> }

\* Values: a non-empty string and the empty string.
SmtValues == { <<97>>, <<>> }

-----------------------------------------------------------------------------
(* SparseMerkleTree: state machine *)

\* The map of pairs inserted so far: key -> [some, value].
NoValue == [some |-> FALSE]

\* SparseMerkleTree::with_depth
SMTInit ==
    /\ smtDepth \in 1..MaxSmtDepth
    /\ smtRoot = Empty
    /\ smtDigest = get_hash(Empty)
    /\ smtKV = [k \in SmtKeys |-> NoValue]
    /\ smtRes = [op |-> "new", key |-> <<>>, value |-> <<>>, ret |-> "Ok"]

\* SparseMerkleTree::insert returning the new tree (update_serializable
\* stores the root node and recomputes root_digest).
SMTInsert(key, value) ==
    /\ smtRes.ret # "panic"
    /\ LET r == insert_of(smtRoot, smtDepth, key, value)
       IN  /\ ~r.panic
           /\ smtRoot' = r.root
           /\ smtDigest' = get_hash(r.root)
    /\ smtKV' = [smtKV EXCEPT ![key] = [some |-> TRUE, value |-> value]]
    /\ smtRes' = [op |-> "insert", key |-> key, value |-> value, ret |-> "Ok"]
    /\ UNCHANGED smtDepth
    /\ UNCHANGED notSMT

\* SparseMerkleTree::insert panicking ("keys are equal up to max key
\* length"): the tree passed by value is lost and the thread unwinds.
SMTInsertPanic(key, value) ==
    /\ smtRes.ret # "panic"
    /\ insert_of(smtRoot, smtDepth, key, value).panic
    /\ smtRes' = [op |-> "insert", key |-> key, value |-> value, ret |-> "panic"]
    /\ UNCHANGED <<smtDepth, smtRoot, smtDigest, smtKV>>
    /\ UNCHANGED notSMT

NextSMT ==
    \/ \E k \in SmtKeys, v \in SmtValues : SMTInsert(k, v)
    \/ \E k \in SmtKeys, v \in SmtValues : SMTInsertPanic(k, v)

\* AuthenticatedKV::commit
commit == smtDigest

\* AuthenticatedKV::get on the current tree
get(key) == get_of(smtRoot, key)

-----------------------------------------------------------------------------
(* Inputs of the IMT operations *)

\* Byte strings handed to append/update.  <<116>> and <<116, 0>> differ as
\* byte strings but fill the 31-byte Poseidon buffer identically.
LeafInputs == { <<116>>, <<117>>, <<116, 0>> }

-----------------------------------------------------------------------------
(* IncrementalMerkleTree: state machine *)

\* IncrementalMerkleTree::with_depth
IMTInit ==
    /\ depth \in 1..MaxDepth
    /\ leaves = <<>>
    /\ frontier = Repeat(At(compute_zero_hashes(depth), 0), depth + 1)
    /\ imtRes = [op |-> "new", arg |-> <<>>, ret |-> "Ok", val |-> 0]
    /\ imtUpdated = FALSE

\* IncrementalMerkleTree::append, Ok(index) path
IMTAppend(leaf_data) ==
    /\ ~is_full
    /\ leaves' = append_leaves(leaves, leaf_data)
    /\ frontier' = append_frontier(frontier, leaves, depth, leaf_data)
    /\ imtRes' = [op |-> "append", arg |-> leaf_data, ret |-> "Ok",
                  val |-> Len(leaves)]
    /\ UNCHANGED <<depth, imtUpdated>>
    /\ UNCHANGED notIMT

\* IncrementalMerkleTree::append, Err(TreeFull) path
IMTAppendFull(leaf_data) ==
    /\ is_full
    /\ imtRes' = [op |-> "append", arg |-> leaf_data, ret |-> "TreeFull",
                  val |-> 0]
    /\ UNCHANGED <<depth, leaves, frontier, imtUpdated>>
    /\ UNCHANGED notIMT

\* IncrementalMerkleTree::update, Ok path
IMTUpdate(index, leaf_data) ==
    /\ index < Len(leaves)
    /\ leaves' = SetAt(leaves, index, hash_bytes(leaf_data))
    /\ imtRes' = [op |-> "update", arg |-> <<index>> \o leaf_data, ret |-> "Ok",
                  val |-> 0]
    /\ imtUpdated' = TRUE
    /\ UNCHANGED <<depth, frontier>>
    /\ UNCHANGED notIMT

\* IMTUpdateOutOfBounds with a plausible slip: update written like
\* set_leaf_hash, which pads the vector with zero hashes up to the index
\* and fails only for index >= capacity.
IMTUpdatePadding(index, leaf_data) ==
    /\ index >= Len(leaves)
    /\ IF index >= capacity
       THEN /\ imtRes' = [op |-> "update", arg |-> <<index>> \o leaf_data,
                          ret |-> "IndexOutOfBounds", val |-> 0]
            /\ UNCHANGED leaves
       ELSE /\ imtRes' = [op |-> "update", arg |-> <<index>> \o leaf_data,
                          ret |-> "Ok", val |-> 0]
            /\ leaves' = [i \in 1..(index + 1) |->
                            IF i = index + 1 THEN hash_bytes(leaf_data)
                            ELSE IF i <= Len(leaves) THEN leaves[i]
                            ELSE At(zero_hashes, 0)]
    /\ UNCHANGED <<depth, frontier, imtUpdated>>
    /\ UNCHANGED notIMT

\* IncrementalMerkleTree::update, Err(IndexOutOfBounds) path
IMTUpdateOutOfBounds(index, leaf_data) ==
    /\ index >= Len(leaves)
    /\ imtRes' = [op |-> "update", arg |-> <<index>> \o leaf_data,
                  ret |-> "IndexOutOfBounds", val |-> 0]
    /\ UNCHANGED <<depth, leaves, frontier, imtUpdated>>
    /\ UNCHANGED notIMT

\* IncrementalMerkleTree::prove, Ok(proof) path (&self: the tree is only read;
\* the proof returned is prove(leaf_index))
IMTProve(leaf_index) ==
    /\ prove(leaf_index).ok
    /\ imtRes' = [op |-> "prove", arg |-> <<leaf_index>>, ret |-> "Ok", val |-> 0]
    /\ UNCHANGED <<depth, leaves, frontier, imtUpdated>>
    /\ UNCHANGED notIMT

\* IncrementalMerkleTree::prove, Err(LeafNotAppended) path
IMTProveNotAppended(leaf_index) ==
    /\ ~prove(leaf_index).ok
    /\ imtRes' = [op |-> "prove", arg |-> <<leaf_index>>,
                  ret |-> prove(leaf_index).err, val |-> 0]
    /\ UNCHANGED <<depth, leaves, frontier, imtUpdated>>
    /\ UNCHANGED notIMT

NextIMT ==
    \/ \E b \in LeafInputs : IMTAppend(b)
    \/ \E b \in LeafInputs : IMTAppendFull(b)
    \/ \E i \in 0..capacity, b \in LeafInputs : IMTUpdate(i, b)
    \/ \E i \in 0..capacity, b \in LeafInputs : IMTUpdateOutOfBounds(i, b)
    \/ \E i \in 0..capacity : IMTProve(i)
    \/ \E i \in 0..capacity : IMTProveNotAppended(i)

-----------------------------------------------------------------------------
(* utils/hash.rs: the hash functions storage/persistent.rs imports as      *)
(* crate::utils::{hash_bytes, hash_pair} (SHA-256 over the whole input)    *)

sha256_hash_bytes(input) == <<-4>> \o input \o <<-9>>

sha256_hash_pair(a, b) == sha256_hash_bytes(a \o b)

-----------------------------------------------------------------------------
(* storage/cache.rs: PageCache, as used by the persistent tree *)

\* PageCache::new
cache_new(max_pages) ==
    [pages |-> << >>, access_order |-> << >>, max_size |-> max_pages]

\* access_order.retain(|&id| id != page_id)
RECURSIVE retain_not(_, _)
retain_not(order, page_id) ==
    IF order = << >> THEN << >>
    ELSE IF Head(order) = page_id THEN retain_not(Tail(order), page_id)
         ELSE << Head(order) >> \o retain_not(Tail(order), page_id)

\* self.pages.remove(&page_id)
pages_remove(pages, page_id) ==
    [id \in (DOMAIN pages) \ {page_id} |-> pages[id]]

\* self.pages.insert(page_id, page)
pages_insert(pages, page_id, page) ==
    [id \in (DOMAIN pages) \cup {page_id} |->
        IF id = page_id THEN page ELSE pages[id]]

\* PageCache::get: the page if cached, moved to the most-recently-used end.
cache_get(c, page_id) ==
    IF page_id \in DOMAIN c.pages
    THEN [hit |-> TRUE, page |-> c.pages[page_id],
          cache |-> [c EXCEPT !.access_order =
                        Append(retain_not(c.access_order, page_id), page_id)]]
    ELSE [hit |-> FALSE, page |-> << >>, cache |-> c]

\* The eviction loop of PageCache::insert.
RECURSIVE cache_evict(_)
cache_evict(c) ==
    IF Cardinality(DOMAIN c.pages) >= c.max_size /\ c.access_order # << >>
    THEN cache_evict([c EXCEPT !.pages = pages_remove(c.pages, Head(c.access_order)),
                               !.access_order = Tail(c.access_order)])
    ELSE c

\* PageCache::insert
cache_insert(c, page_id, page_data) ==
    LET e == cache_evict(c)
    IN  [e EXCEPT !.pages = pages_insert(e.pages, page_id, page_data),
                  !.access_order = Append(e.access_order, page_id)]

-----------------------------------------------------------------------------
(* storage/persistent.rs: leaves.dat *)

\* 1 << DEFAULT_TREE_DEPTH
pmt_capacity == Pow2(PmtDepth)

\* Pages of leaves.dat that can hold a leaf of the tree.
NumPages == (pmt_capacity + LeavesPerPage - 1) \div LeavesPerPage

\* A leaf slot is 33 bytes, an existence flag and the hash: << >> stands
\* for flag 0, <<h>> for flag 1 followed by the 32 bytes of h.
NoLeaf == << >>

\* A page never written: zero bytes (set_len of the mapped megabyte), or the
\* empty read past the end of the file resized with zeros.
zero_page == [i \in 1..LeavesPerPage |-> NoLeaf]

\* leaves.dat of a fresh data directory.
empty_data_file == [p \in 0..(NumPages - 1) |-> zero_page]

\* page_data[leaf_start] = 1; page_data[leaf_start + 1 ..] = leaf_hash
page_put(page, page_offset, leaf_hash) ==
    [page EXCEPT ![page_offset + 1] = << leaf_hash >>]

\* The slot test of read_leaf_from_disk: Some(hash) iff the flag is 1.
page_read(page, page_offset) ==
    IF page[page_offset + 1] # NoLeaf
    THEN [some |-> TRUE, hash |-> page[page_offset + 1][1]]
    ELSE [some |-> FALSE]

\* write_leaf_to_disk with the mapping lost to the file (a private instead
\* of a shared mapping): a plausible slip.
write_leaf_unmapped(file, c, index, leaf_hash) ==
    LET page_id == index \div LeavesPerPage
        page_offset == index % LeavesPerPage
    IN  IF page_id < MmapPages
        THEN [file |-> file, cache |-> c]
        ELSE LET g == cache_get(c, page_id)
                 c1 == IF g.hit THEN g.cache
                       ELSE cache_insert(c, page_id, file[page_id])
                 page == page_put(c1.pages[page_id], page_offset, leaf_hash)
             IN  [file |-> [file EXCEPT ![page_id] = page],
                  cache |-> [c1 EXCEPT !.pages[page_id] = page]]

\* PersistentMerkleTree::write_leaf_to_disk: the data file and the cache
\* after the write.  Pages below MmapPages are written through the shared
\* mapping; the others through the cache, followed by write_page_to_disk.
write_leaf_to_disk(file, c, index, leaf_hash) ==
    LET page_id == index \div LeavesPerPage
        page_offset == index % LeavesPerPage
    IN  IF page_id < MmapPages
        THEN [file |-> [file EXCEPT ![page_id] =
                            page_put(file[page_id], page_offset, leaf_hash)],
              cache |-> c]
        ELSE LET g == cache_get(c, page_id)
                 c1 == IF g.hit THEN g.cache
                       ELSE cache_insert(c, page_id, file[page_id])
                 page == page_put(c1.pages[page_id], page_offset, leaf_hash)
             IN  [file |-> [file EXCEPT ![page_id] = page],
                  cache |-> [c1 EXCEPT !.pages[page_id] = page]]

\* PersistentMerkleTree::read_leaf_from_disk: Option<Hash> and the cache
\* after the read.
read_leaf_from_disk(file, c, index) ==
    LET page_id == index \div LeavesPerPage
        page_offset == index % LeavesPerPage
    IN  IF page_id < MmapPages
        THEN [res |-> page_read(file[page_id], page_offset), cache |-> c]
        ELSE LET g == cache_get(c, page_id)
                 c1 == IF g.hit THEN g.cache
                       ELSE cache_insert(c, page_id, file[page_id])
             IN  [res |-> page_read(c1.pages[page_id], page_offset), cache |-> c1]

\* The write-back loop of sync(): write_page_to_disk for every cached page.
sync_pages(file, c) ==
    [p \in DOMAIN file |-> IF p \in DOMAIN c.pages THEN c.pages[p] ELSE file[p]]

-----------------------------------------------------------------------------
(* storage/persistent.rs: the in-memory tree and the metadata *)

\* PersistentMerkleTree::compute_zero_hashes
RECURSIVE pmt_compute_zero_hashes(_)
pmt_compute_zero_hashes(d) ==
    IF d = 0 THEN << sha256_hash_bytes(<<0>>) >>
    ELSE LET prev == pmt_compute_zero_hashes(d - 1)
         IN  Append(prev, sha256_hash_pair(At(prev, d - 1), At(prev, d - 1)))

\* IncrementalMerkleTree::set_next_index: leaves.resize(leaf_count, zero_hashes[0])
set_next_index(lv, leaf_count) ==
    [i \in 1..leaf_count |-> IF i <= Len(lv) THEN lv[i]
                             ELSE At(compute_zero_hashes(PmtDepth), 0)]

\* IncrementalMerkleTree::set_leaf_hash (index < capacity): pad with
\* zero_hashes[0] up to index, then store.
set_leaf_hash(lv, index, hash) ==
    SetAt(set_next_index(lv, IF Len(lv) <= index THEN index + 1 ELSE Len(lv)),
          index, hash)

\* The loop of load_existing_data from leaf i on: the leaves of the memory
\* tree and the cache after reading every slot below next_index.
RECURSIVE load_leaves(_, _, _, _, _)
load_leaves(file, c, lv, i, next_index) ==
    IF i >= next_index THEN [leaves |-> lv, cache |-> c]
    ELSE LET r == read_leaf_from_disk(file, c, i)
         IN  load_leaves(file, r.cache,
                         IF r.res.some THEN set_leaf_hash(lv, i, r.res.hash) ELSE lv,
                         i + 1, next_index)

\* load_existing_data on a new memory tree.
load_existing_data(file, c, next_index) ==
    load_leaves(file, c, set_next_index(<< >>, next_index), 0, next_index)

\* to_le_bytes of an unsigned integer of w bytes
RECURSIVE le_bytes(_, _)
le_bytes(n, w) ==
    IF w = 0 THEN << >> ELSE << n % 256 >> \o le_bytes(n \div 256, w - 1)

\* crc32fast::hash: the CRC-32 of a byte string, as a term.
crc32fast_hash(bytes) == <<-5>> \o bytes \o <<-9>>

\* bincode::serialize of (version: u32, depth: usize, next_index: usize,
\* root_hash: [u8; 32], last_sync: u64), the input of the checksum.
data_for_checksum(md) ==
    le_bytes(md.version, 4) \o le_bytes(md.depth, 8) \o le_bytes(md.next_index, 8)
        \o md.root_hash \o le_bytes(md.last_sync, 8)

\* TreeMetadata::update_checksum at time `now`
update_checksum(md, now) ==
    LET stamped == [md EXCEPT !.last_sync = now]
    IN  [stamped EXCEPT !.checksum = crc32fast_hash(data_for_checksum(stamped))]

\* TreeMetadata::verify_checksum returns Ok
verify_checksum(md) == crc32fast_hash(data_for_checksum(md)) = md.checksum

\* TreeMetadata::new at time `now`
TreeMetadata_new(d, next_index, root_hash, now) ==
    update_checksum([version |-> 1, depth |-> d, next_index |-> next_index,
                     root_hash |-> root_hash, last_sync |-> now,
                     checksum |-> le_bytes(0, 4)], now)

\* The process's memory when no tree is open.
NoMetadata == [version |-> 0, depth |-> 0, next_index |-> 0, root_hash |-> << >>,
               last_sync |-> 0, checksum |-> << >>]

\* load_or_create_metadata at time `now`: new metadata for an empty file,
\* otherwise the record of the file if its checksum verifies.  (A file
\* holds either nothing or one whole record: see PMTMetaWrite.)
load_or_create_metadata(mfile, now) ==
    IF mfile = << >>
    THEN [ok |-> TRUE, err |-> "",
          metadata |-> TreeMetadata_new(PmtDepth, 0,
                           At(pmt_compute_zero_hashes(PmtDepth), PmtDepth), now)]
    ELSE IF verify_checksum(mfile[1])
         THEN [ok |-> TRUE, err |-> "", metadata |-> mfile[1]]
         ELSE [ok |-> FALSE, err |-> "ChecksumError", metadata |-> NoMetadata]

\* save_metadata writing the metadata as it is in memory, without
\* update_checksum on the copy: a plausible slip.
saved_metadata_stale(md, now) == md

\* The record save_metadata writes at time `now`: a clone of the in-memory
\* metadata with its checksum (and last_sync) updated.
saved_metadata(md, now) == update_checksum(md, now)

\* compute_root_hash with a plausible slip: the root is folded with the
\* storage layer's own hash_pair and zero hashes (SHA-256) instead of being
\* asked of the memory tree.
RECURSIVE sha256_node_hash(_, _, _)
sha256_node_hash(lv, level, index) ==
    IF level = 0
    THEN IF index < Len(lv) THEN At(lv, index)
         ELSE At(pmt_compute_zero_hashes(0), 0)
    ELSE sha256_hash_pair(sha256_node_hash(lv, level - 1, 2 * index),
                          sha256_node_hash(lv, level - 1, 2 * index + 1))

compute_root_hash_sha256(lv) == sha256_node_hash(lv, PmtDepth, 0)

\* compute_root_hash: memory_tree.root()
compute_root_hash(lv) == root_of(lv, PmtDepth)

\* WalEntry::new (the timestamp is not modelled)
WalEntry_new(index, hash) == [index |-> index, hash |-> hash]

\* The order of the steps of append and update: the step that follows
\* step pc.  "wal" is skipped when the WAL is disabled.
next_step_page_first(pc) ==
    CASE pc = "start" -> "page"
      [] pc = "page" -> IF enable_wal THEN "wal" ELSE "meta_trunc"
      [] pc = "wal" -> "meta_trunc"
      [] pc = "meta_trunc" -> "meta_write"
      [] OTHER -> "idle"

next_step(pc) ==
    CASE pc = "start" -> IF enable_wal THEN "wal" ELSE "page"
      [] pc = "wal" -> "page"
      [] pc = "page" -> "meta_trunc"
      [] pc = "meta_trunc" -> "meta_write"
      [] OTHER -> "idle"

\* Byte strings handed to the persistent tree's append/update.
PmtInputs == { <<116>>, <<117>> }

-----------------------------------------------------------------------------
(* PersistentMerkleTree: state machine.  A kill of the process keeps what  *)
(* has been written to the files (through write() or the shared mapping)   *)
(* and loses the process's memory.                                         *)

\* current_timestamp(): a logical clock, the number of append/update calls
\* started so far.
current_timestamp == pmtOps

\* No call in progress.  `before` is the in-memory state (memory tree leaves
\* and metadata) at the moment the call in progress started.
NoOp == [name |-> "none", index |-> 0, leaf_hash |-> << >>, writes |-> << >>,
         before |-> [leaves |-> << >>, metadata |-> NoMetadata]]

\* Nothing observed at a drop.
NotSeen == [valid |-> FALSE, synced |-> FALSE, root |-> << >>, len |-> 0]

\* PersistentMerkleTree::root
pmt_root == metadata.root_hash

\* PersistentMerkleTree::len
pmt_len == metadata.next_index

\* PersistentMerkleTree::prove
pmt_prove(leaf_index) == prove_of(memLeaves, PmtDepth, leaf_index)

\* PersistentMerkleTree::new on a fresh data directory.
PMTInit ==
    /\ enable_wal \in BOOLEAN
    /\ dataFile = empty_data_file
    /\ metaFile = << >>
    /\ walFile = << >>
    /\ pmtOpen = TRUE
    /\ metadata = load_or_create_metadata(<< >>, 0).metadata
    /\ memLeaves = << >>
    /\ cache = cache_new(CachePages)
    /\ pmtPc = "idle"
    /\ pmtOp = NoOp
    /\ pmtRes = [op |-> "new", ret |-> "Ok"]
    /\ pmtSeen = NotSeen
    /\ pmtLogged = << >>
    /\ pmtClean = TRUE
    /\ pmtOps = 0
    /\ pmtDone = << >>

\* PersistentMerkleTree::new on an existing data directory: metadata from
\* metadata.dat, leaves from leaves.dat.  wal.log is opened and not read.
PMTOpen ==
    /\ ~pmtOpen
    /\ load_or_create_metadata(metaFile, current_timestamp).ok
    /\ LET m == load_or_create_metadata(metaFile, current_timestamp).metadata
           l == load_existing_data(dataFile, cache_new(CachePages), m.next_index)
       IN  /\ metadata' = m
           /\ memLeaves' = l.leaves
           /\ cache' = l.cache
    /\ pmtOpen' = TRUE
    /\ pmtPc' = "idle"
    /\ pmtOp' = NoOp
    /\ pmtRes' = [op |-> "open", ret |-> "Ok", prev |-> pmtRes]
    /\ UNCHANGED <<pmtDiskVars, pmtHistVars>>
    /\ UNCHANGED notPMT

\* PersistentMerkleTree::new on an existing data directory fails in
\* load_or_create_metadata: no tree is returned.  `prev` is the result of
\* the last call that was not such a failed open.
PMTOpenFailed ==
    /\ ~pmtOpen
    /\ ~load_or_create_metadata(metaFile, current_timestamp).ok
    /\ pmtRes' = [op |-> "open",
                  ret |-> load_or_create_metadata(metaFile, current_timestamp).err,
                  prev |-> IF pmtRes.op = "open" THEN pmtRes.prev ELSE pmtRes]
    /\ UNCHANGED <<pmtDiskVars, pmtOpen, metadata, memLeaves, cache, pmtPc, pmtOp,
                   pmtHistVars>>
    /\ UNCHANGED notPMT

\* The fields of a metadata.dat record that damage on disk can change while
\* the record still deserializes.
DamagedFields == { "next_index", "root_hash", "checksum" }

\* The record with one field replaced by another value of its type.
damaged(md, field) ==
    CASE field = "next_index" -> [md EXCEPT !.next_index = (@ + 1) % (pmt_capacity + 1)]
      [] field = "root_hash" ->
            [md EXCEPT !.root_hash = IF @ = sha256_hash_bytes(<<0>>)
                                     THEN sha256_hash_bytes(<<1>>)
                                     ELSE sha256_hash_bytes(<<0>>)]
      [] OTHER -> [md EXCEPT !.checksum = crc32fast_hash(<< >>)]

\* The environment damages metadata.dat while no tree is open on the
\* directory (bit rot, a foreign writer): an intact record gets one field
\* changed.
PMTDamageMetadata(field) ==
    /\ ~pmtOpen
    /\ metaFile # << >> /\ verify_checksum(metaFile[1])
    /\ metaFile' = << damaged(metaFile[1], field) >>
    /\ pmtRes' = [op |-> "damage", ret |-> "Ok", field |-> field]
    /\ UNCHANGED <<enable_wal, dataFile, walFile, pmtOpen, metadata, memLeaves,
                   cache, pmtPc, pmtOp, pmtHistVars>>
    /\ UNCHANGED notPMT

\* append up to its first write: the TreeFull check, the leaf hash, the index.
PMTAppend(leaf_data) ==
    /\ pmtOpen /\ pmtPc = "idle" /\ pmtOps < MaxPmtOps
    /\ metadata.next_index < pmt_capacity
    /\ pmtOp' = [name |-> "append", index |-> metadata.next_index,
                 leaf_hash |-> sha256_hash_bytes(leaf_data), writes |-> << >>,
                 before |-> [leaves |-> memLeaves, metadata |-> metadata]]
    /\ pmtPc' = next_step("start")
    /\ pmtRes' = [op |-> "append", ret |-> "running"]
    /\ pmtOps' = pmtOps + 1
    /\ UNCHANGED <<pmtDiskVars, pmtOpen, metadata, memLeaves, cache,
                   pmtSeen, pmtLogged, pmtClean, pmtDone>>
    /\ UNCHANGED notPMT

\* append on a full tree: Err(TreeFull).
PMTAppendFull(leaf_data) ==
    /\ pmtOpen /\ pmtPc = "idle"
    /\ metadata.next_index >= pmt_capacity
    /\ pmtRes' = [op |-> "append", ret |-> "TreeFull"]
    /\ UNCHANGED <<pmtDiskVars, pmtOpen, metadata, memLeaves, cache, pmtPc, pmtOp,
                   pmtHistVars>>
    /\ UNCHANGED notPMT

\* update up to its first write: the bounds check and the leaf hash.
PMTUpdate(index, leaf_data) ==
    /\ pmtOpen /\ pmtPc = "idle" /\ pmtOps < MaxPmtOps
    /\ index < metadata.next_index
    /\ pmtOp' = [name |-> "update", index |-> index,
                 leaf_hash |-> sha256_hash_bytes(leaf_data), writes |-> << >>,
                 before |-> [leaves |-> memLeaves, metadata |-> metadata]]
    /\ pmtPc' = next_step("start")
    /\ pmtRes' = [op |-> "update", ret |-> "running"]
    /\ pmtOps' = pmtOps + 1
    /\ UNCHANGED <<pmtDiskVars, pmtOpen, metadata, memLeaves, cache,
                   pmtSeen, pmtLogged, pmtClean, pmtDone>>
    /\ UNCHANGED notPMT

\* update past the end: Err(IndexOutOfBounds).
PMTUpdateOutOfBounds(index, leaf_data) ==
    /\ pmtOpen /\ pmtPc = "idle"
    /\ index >= metadata.next_index
    /\ pmtRes' = [op |-> "update", ret |-> "IndexOutOfBounds"]
    /\ UNCHANGED <<pmtDiskVars, pmtOpen, metadata, memLeaves, cache, pmtPc, pmtOp,
                   pmtHistVars>>
    /\ UNCHANGED notPMT

\* wal.write_entry: the frame is appended to wal.log and flushed.
PMTWalWrite ==
    /\ pmtOpen /\ pmtPc = "wal"
    /\ walFile' = Append(walFile, WalEntry_new(pmtOp.index, pmtOp.leaf_hash))
    /\ pmtLogged' = set_leaf_hash(pmtLogged, pmtOp.index, pmtOp.leaf_hash)
    /\ pmtOp' = [pmtOp EXCEPT !.writes = Append(@, "wal")]
    /\ pmtPc' = next_step("wal")
    /\ UNCHANGED <<enable_wal, dataFile, metaFile, pmtOpen, metadata, memLeaves,
                   cache, pmtRes, pmtSeen, pmtClean, pmtOps, pmtDone>>
    /\ UNCHANGED notPMT

\* write_leaf_to_disk
PMTPageWrite ==
    /\ pmtOpen /\ pmtPc = "page"
    /\ LET w == write_leaf_to_disk(dataFile, cache, pmtOp.index, pmtOp.leaf_hash)
       IN  /\ dataFile' = w.file
           /\ cache' = w.cache
    /\ pmtOp' = [pmtOp EXCEPT !.writes = Append(@, "page")]
    /\ pmtPc' = next_step("page")
    /\ UNCHANGED <<enable_wal, metaFile, walFile, pmtOpen, metadata, memLeaves,
                   pmtRes, pmtHistVars>>
    /\ UNCHANGED notPMT

\* memory_after with a plausible slip: update advances metadata.next_index
\* as append does.
memory_after_count(lv, md, op) ==
    LET lv2 == IF op.name = "append"
               THEN set_next_index(set_leaf_hash(lv, op.index, op.leaf_hash),
                                   op.index + 1)
               ELSE set_leaf_hash(lv, op.index, op.leaf_hash)
    IN  [leaves |-> lv2,
         metadata |-> [md EXCEPT
             !.next_index = IF op.name = "append" THEN op.index + 1 ELSE @ + 1,
             !.root_hash = compute_root_hash(lv2)]]

\* memory_after with a plausible slip: compute_root_hash is called before
\* the memory tree is updated, so the root stored is the root before the call.
memory_after_stale_root(lv, md, op) ==
    LET lv2 == IF op.name = "append"
               THEN set_next_index(set_leaf_hash(lv, op.index, op.leaf_hash),
                                   op.index + 1)
               ELSE set_leaf_hash(lv, op.index, op.leaf_hash)
    IN  [leaves |-> lv2,
         metadata |-> [md EXCEPT
             !.next_index = IF op.name = "append" THEN op.index + 1 ELSE @,
             !.root_hash = compute_root_hash(lv)]]

\* The memory tree and the in-memory metadata after the "Update in-memory
\* tree" and "Update metadata" blocks of append/update, which run between
\* write_leaf_to_disk and save_metadata.
memory_after(lv, md, op) ==
    LET lv2 == IF op.name = "append"
               THEN set_next_index(set_leaf_hash(lv, op.index, op.leaf_hash),
                                   op.index + 1)
               ELSE set_leaf_hash(lv, op.index, op.leaf_hash)
    IN  [leaves |-> lv2,
         metadata |-> [md EXCEPT
             !.next_index = IF op.name = "append" THEN op.index + 1 ELSE @,
             !.root_hash = compute_root_hash(lv2)]]

\* The memory tree and the in-memory metadata are updated, then
\* save_metadata starts: seek(0) and set_len(0) empty metadata.dat.
PMTMetaTruncate ==
    /\ pmtOpen /\ pmtPc = "meta_trunc"
    /\ LET m == memory_after(memLeaves, metadata, pmtOp)
       IN  /\ memLeaves' = m.leaves
           /\ metadata' = m.metadata
    /\ metaFile' = << >>
    /\ pmtOp' = [pmtOp EXCEPT !.writes = Append(@, "meta_trunc")]
    /\ pmtPc' = next_step("meta_trunc")
    /\ UNCHANGED <<enable_wal, dataFile, walFile, pmtOpen, cache, pmtRes, pmtHistVars>>
    /\ UNCHANGED notPMT

\* The leaves of the calls that have returned Ok, after one more: an append
\* adds its leaf, an update replaces the leaf at its index.
done_after(done, op) ==
    IF op.name = "append" THEN Append(done, op.leaf_hash)
    ELSE [j \in 1..Len(done) |-> IF j = op.index + 1 THEN op.leaf_hash ELSE done[j]]

\* save_metadata ends: the record is written and flushed; the call returns Ok.
PMTMetaWrite ==
    /\ pmtOpen /\ pmtPc = "meta_write"
    /\ metaFile' = << saved_metadata(metadata, current_timestamp) >>
    /\ pmtOp' = [pmtOp EXCEPT !.writes = Append(@, "meta")]
    /\ pmtPc' = next_step("meta_write")
    /\ pmtRes' = [op |-> pmtOp.name, ret |-> "Ok"]
    /\ pmtDone' = done_after(pmtDone, pmtOp)
    /\ UNCHANGED <<enable_wal, dataFile, walFile, pmtOpen, metadata, memLeaves, cache,
                   pmtSeen, pmtLogged, pmtClean, pmtOps>>
    /\ UNCHANGED notPMT

\* The fallible steps of append and update, and the position (pmtPc) at
\* which each is taken.
IoSteps == { "wal_write", "load_page", "write_page", "meta_seek", "meta_write" }

io_step_pc(at) ==
    CASE at = "wal_write" -> "wal"
      [] at \in {"load_page", "write_page"} -> "page"
      [] at = "meta_seek" -> "meta_trunc"
      [] OTHER -> "meta_write"

\* append or update returns an Io error from step `at` (the `?` after
\* wal.write_entry, load_page_from_disk, write_page_to_disk, or inside
\* save_metadata after seek/set_len or write_all); the tree stays open.
\*   wal_write:  no frame reaches wal.log.
\*   load_page:  the page was not cached and could not be read.
\*   write_page: the cached page holds the new leaf, leaves.dat does not.
\*   meta_seek:  the in-memory tree and metadata are already updated;
\*               metadata.dat is as it was.
\*   meta_write: metadata.dat has been emptied by set_len(0) and stays empty.
PMTIoError(at) ==
    /\ pmtOpen /\ pmtPc # "idle" /\ pmtPc = io_step_pc(at)
    /\ LET page_id == pmtOp.index \div LeavesPerPage
           w == write_leaf_to_disk(dataFile, cache, pmtOp.index, pmtOp.leaf_hash)
           m == memory_after(memLeaves, metadata, pmtOp)
       IN  /\ at \in {"load_page", "write_page"} => page_id >= MmapPages
           /\ at = "load_page" => ~cache_get(cache, page_id).hit
           /\ cache' = IF at = "write_page" THEN w.cache ELSE cache
           /\ memLeaves' = IF at = "meta_seek" THEN m.leaves ELSE memLeaves
           /\ metadata' = IF at = "meta_seek" THEN m.metadata ELSE metadata
    /\ pmtPc' = "idle"
    /\ pmtRes' = [op |-> pmtOp.name, ret |-> "IoError", at |-> at]
    /\ pmtClean' = FALSE
    /\ UNCHANGED <<pmtDiskVars, pmtOpen, pmtOp, pmtSeen, pmtLogged, pmtOps, pmtDone>>
    /\ UNCHANGED notPMT

\* The steps of sync() that can return an error, in program order; "none"
\* stands for a sync() in which every step succeeds.
SyncSteps == << "mmap_flush", "page_write", "data_flush", "meta_flush",
                "wal_seek", "wal_set_len", "wal_flush", "none" >>

\* Position of a step in SyncSteps.
sync_pos(step) == CHOOSE i \in 1..Len(SyncSteps) : SyncSteps[i] = step

\* sync() truncating the WAL before it flushes: a plausible slip.
sync_wal_first(wal, failed_at) == << >>

\* wal.log after a sync() that fails at step failed_at: set_len(0) is
\* reached only when every earlier step has returned Ok.
sync_wal(wal, failed_at) ==
    IF enable_wal /\ sync_pos(failed_at) > sync_pos("wal_set_len")
    THEN << >> ELSE wal

\* leaves.dat after a sync() that fails at step failed_at: the cached pages
\* in `written` have been written back.
sync_data(file, c, written) ==
    [p \in DOMAIN file |-> IF p \in written THEN c.pages[p] ELSE file[p]]

\* sync(): every step succeeds (failed_at = "none") or one step returns an
\* error and sync() returns it.
PMTSync(failed_at) ==
    /\ pmtOpen /\ pmtPc = "idle"
    /\ failed_at \in {"wal_seek", "wal_set_len", "wal_flush"} => enable_wal
    /\ failed_at = "page_write" => DOMAIN cache.pages # {}
    /\ \E written \in SUBSET (DOMAIN cache.pages) :
          /\ failed_at = "mmap_flush" => written = {}
          /\ failed_at = "page_write" => written # DOMAIN cache.pages
          /\ sync_pos(failed_at) > sync_pos("page_write") => written = DOMAIN cache.pages
          /\ dataFile' = sync_data(dataFile, cache, written)
    /\ walFile' = sync_wal(walFile, failed_at)
    /\ pmtRes' = [op |-> "sync", ret |-> IF failed_at = "none" THEN "Ok" ELSE "Err",
                  failed_at |-> failed_at, wal_before |-> walFile]
    /\ UNCHANGED <<enable_wal, metaFile, pmtOpen, metadata, memLeaves, cache, pmtPc,
                   pmtOp, pmtHistVars>>
    /\ UNCHANGED notPMT

\* self.metadata.write() is held: by append from its first line to its
\* return, by update from "Update metadata" to its return.
metadata_write_locked ==
    pmtPc # "idle" /\ (pmtOp.name = "append" \/ pmtPc = "meta_write")

\* A reader thread calls root(), len() and prove(i), for every index i up to
\* the capacity, under one shared borrow of the tree.  append and update
\* take &mut self, so the borrow exists only between two calls of the writer.
PMTRead ==
    /\ pmtOpen /\ pmtPc = "idle"
    /\ pmtRes' = [op |-> "read", ret |-> "Ok", root |-> pmt_root, len |-> pmt_len,
                  proofs |-> [i \in 0..pmt_capacity |-> pmt_prove(i)]]
    /\ UNCHANGED <<pmtDiskVars, pmtOpen, metadata, memLeaves, cache, pmtPc, pmtOp,
                   pmtHistVars>>
    /\ UNCHANGED notPMT

\* The tree is dropped between calls.
PMTDrop ==
    /\ pmtOpen /\ pmtPc = "idle"
    /\ pmtSeen' = [valid |-> TRUE,
                   synced |-> pmtRes.op = "sync" /\ pmtRes.ret = "Ok",
                   root |-> metadata.root_hash, len |-> metadata.next_index]
    /\ pmtOpen' = FALSE
    /\ metadata' = NoMetadata
    /\ memLeaves' = << >>
    /\ cache' = cache_new(CachePages)
    /\ pmtOp' = NoOp
    /\ pmtRes' = [op |-> "drop", ret |-> "Ok"]
    /\ UNCHANGED <<pmtDiskVars, pmtPc, pmtLogged, pmtClean, pmtOps, pmtDone>>
    /\ UNCHANGED notPMT

\* The process is killed inside append or update, before step pmtPc.
PMTKill ==
    /\ pmtOpen /\ pmtPc # "idle"
    /\ pmtSeen' = NotSeen
    /\ pmtClean' = FALSE
    /\ pmtOpen' = FALSE
    /\ metadata' = NoMetadata
    /\ memLeaves' = << >>
    /\ cache' = cache_new(CachePages)
    /\ pmtOp' = NoOp
    /\ pmtPc' = "idle"
    /\ pmtRes' = [op |-> "kill", ret |-> "killed", during |-> pmtOp.name,
                  index |-> pmtOp.index, leaf_hash |-> pmtOp.leaf_hash,
                  before |-> pmtPc]
    /\ UNCHANGED <<pmtDiskVars, pmtLogged, pmtOps, pmtDone>>
    /\ UNCHANGED notPMT

NextPMT ==
    \/ PMTOpen
    \/ PMTOpenFailed
    \/ \E f \in DamagedFields : PMTDamageMetadata(f)
    \/ \E b \in PmtInputs : PMTAppend(b)
    \/ \E b \in PmtInputs : PMTAppendFull(b)
    \/ \E i \in 0..pmt_capacity, b \in PmtInputs : PMTUpdate(i, b)
    \/ \E i \in 0..pmt_capacity, b \in PmtInputs : PMTUpdateOutOfBounds(i, b)
    \/ PMTWalWrite
    \/ PMTPageWrite
    \/ PMTMetaTruncate
    \/ PMTMetaWrite
    \/ \E s \in { SyncSteps[i] : i \in 1..Len(SyncSteps) } : PMTSync(s)
    \/ \E at \in IoSteps : PMTIoError(at)
    \/ PMTRead
    \/ PMTDrop
    \/ PMTKill

-----------------------------------------------------------------------------
(* storage/persistent.rs: write_leaf_to_disk and read_leaf_from_disk on     *)
(* leaves.dat alone, for leaves of mapped and of cached pages and for       *)
(* every size of the page cache                                              *)

\* Pages of leaves.dat in play: the mapped pages and two pages behind them.
StorePages == MmapPages + 2

\* Leaf indices written and read: the first leaf of the mapping and every
\* leaf of the two pages behind it.
StoreLeaves ==
    {0} \cup ((MmapPages * LeavesPerPage)..(StorePages * LeavesPerPage - 1))

\* The leaf hashes written.
StoreHashes == { sha256_hash_bytes(b) : b \in PmtInputs }

\* The fields of a new PersistentMerkleTree the two functions use: leaves.dat
\* of zero bytes and PageCache::new(cache_size / PAGE_SIZE), for every
\* quotient from 0 on.
PagesInit ==
    /\ pgFile = [p \in 0..(StorePages - 1) |-> zero_page]
    /\ pgCache \in { cache_new(n) : n \in 0..CachePages }
    /\ pgWritten = [i \in StoreLeaves |-> NoLeaf]
    /\ pgRecent = << >>
    /\ pgRes = [op |-> "new", ret |-> "Ok"]

\* write_leaf_to_disk returns Ok.
PageWrite(index, leaf_hash) ==
    /\ LET w == write_leaf_to_disk(pgFile, pgCache, index, leaf_hash)
       IN  /\ pgFile' = w.file
           /\ pgCache' = w.cache
    /\ pgWritten' = [pgWritten EXCEPT ![index] = << leaf_hash >>]
    /\ pgRes' = [op |-> "write", ret |-> "Ok", index |-> index]
    /\ UNCHANGED pgRecent
    /\ UNCHANGED notPages

\* write_leaf_to_disk returns an Io error: from load_page_from_disk (the
\* page was not cached and is not read) or from write_page_to_disk (the
\* cached page holds the leaf, leaves.dat does not).
PageWriteIoError(index, leaf_hash, at) ==
    /\ index \div LeavesPerPage >= MmapPages
    /\ at = "load_page" => ~cache_get(pgCache, index \div LeavesPerPage).hit
    /\ pgCache' = IF at = "write_page"
                  THEN write_leaf_to_disk(pgFile, pgCache, index, leaf_hash).cache
                  ELSE pgCache
    /\ pgRes' = [op |-> "write", ret |-> "IoError", index |-> index,
                 hash |-> leaf_hash, at |-> at]
    /\ UNCHANGED <<pgFile, pgWritten, pgRecent>>
    /\ UNCHANGED notPages

\* read_leaf_from_disk returns Ok(Some(hash)) or Ok(None).
PageRead(index) ==
    /\ LET r == read_leaf_from_disk(pgFile, pgCache, index)
       IN  /\ pgCache' = r.cache
           /\ pgRes' = [op |-> "read", ret |-> "Ok", index |-> index, value |-> r.res]
    /\ UNCHANGED <<pgFile, pgWritten, pgRecent>>
    /\ UNCHANGED notPages

\* read_leaf_from_disk returns the Io error of load_page_from_disk.
PageReadIoError(index) ==
    /\ index \div LeavesPerPage >= MmapPages
    /\ ~cache_get(pgCache, index \div LeavesPerPage).hit
    /\ pgRes' = [op |-> "read", ret |-> "IoError", index |-> index]
    /\ UNCHANGED <<pgFile, pgCache, pgWritten, pgRecent>>
    /\ UNCHANGED notPages

NextPages ==
    \/ \E i \in StoreLeaves, h \in StoreHashes : PageWrite(i, h)
    \/ \E i \in StoreLeaves, h \in StoreHashes, at \in {"load_page", "write_page"} :
           PageWriteIoError(i, h, at)
    \/ \E i \in StoreLeaves : PageRead(i)
    \/ \E i \in StoreLeaves : PageReadIoError(i)

-----------------------------------------------------------------------------
(* storage/cache.rs: the PageCache through its public methods *)

\* PageCache::remove
cache_remove(c, page_id) ==
    [c EXCEPT !.access_order = retain_not(@, page_id),
              !.pages = pages_remove(@, page_id)]

\* PageCache::clear
cache_clear(c) == [c EXCEPT !.pages = << >>, !.access_order = << >>]

\* The cached pages the eviction loop of insert removes, in the order in
\* which it removes them.
RECURSIVE evicted_by(_)
evicted_by(c) ==
    IF Cardinality(DOMAIN c.pages) >= c.max_size /\ c.access_order # << >>
    THEN (IF Head(c.access_order) \in DOMAIN c.pages
          THEN << Head(c.access_order) >> ELSE << >>)
         \o evicted_by([c EXCEPT !.pages = pages_remove(c.pages, Head(c.access_order)),
                                 !.access_order = Tail(c.access_order)])
    ELSE << >>

\* The ids of a sequence that are in a set, in their order.
RECURSIVE retain_in(_, _)
retain_in(order, ids) ==
    IF order = << >> THEN << >>
    ELSE IF Head(order) \in ids THEN << Head(order) >> \o retain_in(Tail(order), ids)
         ELSE retain_in(Tail(order), ids)

\* The order of last access after an access to page_id, the pages in
\* `cached` being the ones still cached.
accessed(recent, cached, page_id) ==
    Append(retain_in(recent, cached \ {page_id}), page_id)

\* Page ids handed to the cache.
CachePageIds == { 0, 1, 2, 3 }

\* max_pages handed to PageCache::new.
CacheSizes == { 0, 1, 2, 3 }

\* Page contents handed to insert.
CachePageData == { zero_page, page_put(zero_page, 0, sha256_hash_bytes(<<116>>)) }

\* PageCache::new
CacheInit ==
    /\ pgCache \in { cache_new(n) : n \in CacheSizes }
    /\ pgRecent = << >>
    /\ pgRes = [op |-> "new", ret |-> "Ok"]
    /\ pgFile = << >>
    /\ pgWritten = << >>

\* PageCache::get
CacheGet(page_id) ==
    /\ pgCache' = cache_get(pgCache, page_id).cache
    /\ pgRecent' = IF cache_get(pgCache, page_id).hit
                   THEN accessed(pgRecent, DOMAIN pgCache.pages, page_id)
                   ELSE pgRecent
    /\ pgRes' = [op |-> "get", page_id |-> page_id,
                 ret |-> IF cache_get(pgCache, page_id).hit THEN "Some" ELSE "None"]
    /\ UNCHANGED <<pgFile, pgWritten>>
    /\ UNCHANGED notPages

\* PageCache::insert.  The result records what the eviction loop removed
\* and the order of last access before the call.
CacheInsert(page_id, page_data) ==
    /\ Len(pgCache.access_order) < MaxAccessOrder
    /\ pgCache' = cache_insert(pgCache, page_id, page_data)
    /\ pgRecent' = accessed(pgRecent, DOMAIN cache_evict(pgCache).pages, page_id)
    /\ pgRes' = [op |-> "insert", page_id |-> page_id, ret |-> "Ok",
                 evicted |-> evicted_by(pgCache), recent |-> pgRecent,
                 cached |-> page_id \in DOMAIN pgCache.pages]
    /\ UNCHANGED <<pgFile, pgWritten>>
    /\ UNCHANGED notPages

\* PageCache::remove
CacheRemove(page_id) ==
    /\ pgCache' = cache_remove(pgCache, page_id)
    /\ pgRecent' = retain_not(pgRecent, page_id)
    /\ pgRes' = [op |-> "remove", page_id |-> page_id,
                 ret |-> IF page_id \in DOMAIN pgCache.pages THEN "Some" ELSE "None"]
    /\ UNCHANGED <<pgFile, pgWritten>>
    /\ UNCHANGED notPages

\* PageCache::clear
CacheClear ==
    /\ pgCache' = cache_clear(pgCache)
    /\ pgRecent' = << >>
    /\ pgRes' = [op |-> "clear", ret |-> "Ok"]
    /\ UNCHANGED <<pgFile, pgWritten>>
    /\ UNCHANGED notPages

NextCache ==
    \/ \E id \in CachePageIds : CacheGet(id)
    \/ \E id \in CachePageIds, data \in CachePageData : CacheInsert(id, data)
    \/ \E id \in CachePageIds : CacheRemove(id)
    \/ CacheClear

-----------------------------------------------------------------------------
(* bincode encodings: Commitment and IncrementalMerkleTree *)

\* from_le_bytes
RECURSIVE from_le_bytes(_)
from_le_bytes(b) ==
    IF b = << >> THEN 0 ELSE Head(b) + 256 * from_le_bytes(Tail(b))

\* bincode::serialize(&Commitment): version u32, commitment_index u64 and the
\* three 32-byte arrays, 108 bytes.
serialize_commitment(c) ==
    le_bytes(c.version, 4) \o le_bytes(c.commitment_index, 8)
        \o c.hash \o c.random_secret \o c.nullifier

\* A value of struct IncrementalMerkleTree.
tree_with_depth(d) ==
    LET zh == compute_zero_hashes(d)
    IN  [leaves |-> << >>, depth |-> d, capacity |-> Pow2(d),
         zero_hashes |-> zh, frontier |-> Repeat(At(zh, 0), d + 1)]

\* bincode::serialize(&IncrementalMerkleTree) dropping the leaves as well as
\* the frontier: a plausible slip (#[serde(skip)] on the wrong field).
serialize_tree_skip_leaves(t) ==
    << le_bytes(0, 8) >>
        \o << le_bytes(t.depth, 8), le_bytes(t.capacity, 8) >>
        \o << le_bytes(Len(t.zero_hashes), 8) >> \o t.zero_hashes

\* bincode::serialize(&IncrementalMerkleTree): the fields in declaration
\* order, a Vec as its u64 length followed by its items, usize as u64; the
\* frontier is #[serde(skip)].  The file is a sequence of items, each an
\* 8-byte integer or a 32-byte hash.
serialize_tree(t) ==
    << le_bytes(Len(t.leaves), 8) >> \o t.leaves
        \o << le_bytes(t.depth, 8), le_bytes(t.capacity, 8) >>
        \o << le_bytes(Len(t.zero_hashes), 8) >> \o t.zero_hashes

\* bincode::deserialize::<IncrementalMerkleTree>: Err on short input; the
\* skipped frontier is Vec::default().
deserialize_tree(data) ==
    IF Len(data) < 1 THEN [ok |-> FALSE]
    ELSE LET n == from_le_bytes(data[1])
         IN  IF Len(data) < n + 4 THEN [ok |-> FALSE]
             ELSE LET m == from_le_bytes(data[n + 4])
                  IN  IF Len(data) < n + 4 + m THEN [ok |-> FALSE]
                      ELSE [ok |-> TRUE,
                            tree |-> [leaves |-> SubSeq(data, 2, n + 1),
                                      depth |-> from_le_bytes(data[n + 2]),
                                      capacity |-> from_le_bytes(data[n + 3]),
                                      zero_hashes |-> SubSeq(data, n + 5, n + 4 + m),
                                      frontier |-> << >>]]

\* IncrementalMerkleTree::root on a tree value
tree_root(t) ==
    IF t.leaves = << >> THEN At(t.zero_hashes, t.depth)
    ELSE LET top == reduce_levels(t.leaves, t.zero_hashes, 0, t.depth)
         IN  IF Len(top) > 0 THEN At(top, 0) ELSE At(t.zero_hashes, t.depth)

\* IncrementalMerkleTree::prove on a tree value
tree_prove(t, leaf_index) ==
    IF leaf_index >= Len(t.leaves)
    THEN [ok |-> FALSE, err |-> "LeafNotAppended"]
    ELSE [ok |-> TRUE,
          leaf_index |-> leaf_index,
          leaf |-> At(t.leaves, leaf_index),
          siblings |-> prove_levels(t.leaves, leaf_index, t.zero_hashes, 0, t.depth)]

\* IncrementalMerkleTree::append on a tree value that is not full
tree_append(t, leaf_data) ==
    LET leaf_hash == hash_bytes(leaf_data)
        lv == Append(t.leaves, leaf_hash)
    IN  [t EXCEPT !.leaves = lv,
                  !.frontier = bubble_up(t.frontier, lv, Len(lv), t.zero_hashes,
                                         leaf_hash, Len(t.leaves), 0, t.depth)]

\* rebuild_frontier with a plausible slip: the frontier is reset to zero
\* hashes and the loop over the leaves is missing.
tree_rebuild_frontier_reset(t) ==
    [t EXCEPT !.frontier = Repeat(At(t.zero_hashes, 0), t.depth + 1)]

\* IncrementalMerkleTree::rebuild_frontier on a tree value
tree_rebuild_frontier(t) ==
    LET zeros == Repeat(At(t.zero_hashes, 0), t.depth + 1)
    IN  [t EXCEPT !.frontier = IF t.leaves = << >> THEN zeros
                               ELSE rebuild_from(zeros, t.leaves, t.zero_hashes,
                                                 0, t.depth)]

-----------------------------------------------------------------------------
(* storage/unified_tree_storage.rs: IncrementalTreeStorage *)

\* IncrementalTreeStorage::load_tree: the tree in the file, with its
\* frontier rebuilt; a new tree of the depth asked for when the file is
\* empty or does not deserialize.
load_tree(data, d) ==
    IF data = << >> THEN tree_with_depth(d)
    ELSE LET r == deserialize_tree(data)
         IN  IF r.ok THEN tree_rebuild_frontier(r.tree) ELSE tree_with_depth(d)

\* 32 bytes of value b
Bytes32(b) == Repeat(b, 32)

\* Commitments inserted through the facade.  The first two differ in
\* commitment_index; the third differs from the first in its nullifier only.
Commitments ==
    { [version |-> 1, commitment_index |-> 0, hash |-> Bytes32(1),
       random_secret |-> Bytes32(2), nullifier |-> Bytes32(3)],
      [version |-> 1, commitment_index |-> 1, hash |-> Bytes32(1),
       random_secret |-> Bytes32(2), nullifier |-> Bytes32(3)],
      [version |-> 1, commitment_index |-> 0, hash |-> Bytes32(1),
       random_secret |-> Bytes32(2), nullifier |-> Bytes32(4)] }

\* No tree value.
NoTree == [leaves |-> << >>, depth |-> 0, capacity |-> 0,
           zero_hashes |-> << >>, frontier |-> << >>]

\* No file in the directory.
NoFile == [exists |-> FALSE, data |-> << >>]

\* Nothing observed.
StNotSeen == [valid |-> FALSE, saved |-> FALSE, root |-> << >>, len |-> 0]

\* IncrementalTreeStorage::new on a fresh directory.
STInit ==
    /\ stOpen = TRUE
    /\ \E d \in 1..MaxDepth : stTree = tree_with_depth(d)
    /\ stCopy = [valid |-> FALSE, tree |-> NoTree]
    /\ treeFile = NoFile
    /\ treeMetaFile = NoFile
    /\ stRes = [op |-> "new", ret |-> "Ok"]
    /\ stSeen = StNotSeen

\* TreeStorage::insert_commitment: bincode::serialize, then append.
STInsertCommitment(c) ==
    /\ stOpen
    /\ Len(stTree.leaves) < stTree.capacity
    /\ stTree' = tree_append(stTree, serialize_commitment(c))
    /\ stCopy' = [valid |-> FALSE, tree |-> NoTree]
    /\ stRes' = [op |-> "insert_commitment", ret |-> "Ok"]
    /\ stSeen' = StNotSeen
    /\ UNCHANGED <<stOpen, treeFile, treeMetaFile>>
    /\ UNCHANGED notST

\* TreeStorage::insert_commitment on a full tree: Err(TreeFull).
STInsertFull(c) ==
    /\ stOpen
    /\ Len(stTree.leaves) >= stTree.capacity
    /\ stRes' = [op |-> "insert_commitment", ret |-> "TreeFull"]
    /\ UNCHANGED <<stOpen, stTree, stCopy, treeFile, treeMetaFile, stSeen>>
    /\ UNCHANGED notST

\* write_truncate with a plausible slip: the file is opened with
\* append(true) instead of truncate(true).
write_append(file, data) == [exists |-> TRUE, data |-> file.data \o data]

\* OpenOptions::new().create(true).write(true).truncate(true).open(path),
\* then write_all(data) and flush: the file holds data and nothing else.
write_truncate(file, data) == [exists |-> TRUE, data |-> data]

\* bincode::serialize(&IncrementalTreeMetadata { root_hash, version: 1 })
serialize_tree_metadata(tree) == << tree_root(tree), le_bytes(1, 4) >>

\* TreeStorage::save: the serialized tree replaces incremental_tree.dat, the
\* root replaces incremental_tree_metadata.dat.
STSave ==
    /\ stOpen
    /\ treeFile' = write_truncate(treeFile, serialize_tree(stTree))
    /\ treeMetaFile' = write_truncate(treeMetaFile, serialize_tree_metadata(stTree))
    /\ stRes' = [op |-> "save", ret |-> "Ok"]
    /\ stSeen' = [valid |-> TRUE, saved |-> TRUE,
                  root |-> tree_root(stTree), len |-> Len(stTree.leaves)]
    /\ UNCHANGED <<stOpen, stTree, stCopy>>
    /\ UNCHANGED notST

\* TreeStorage::root (&self): tree.read(), tree.root().
STRoot ==
    /\ stOpen
    /\ stRes' = [op |-> "root", ret |-> "Ok"]
    /\ UNCHANGED <<stOpen, stTree, stCopy, treeFile, treeMetaFile, stSeen>>
    /\ UNCHANGED notST

\* TreeStorage::len (&self): tree.read(), tree.len().
STLen ==
    /\ stOpen
    /\ stRes' = [op |-> "len", ret |-> "Ok"]
    /\ UNCHANGED <<stOpen, stTree, stCopy, treeFile, treeMetaFile, stSeen>>
    /\ UNCHANGED notST

\* TreeStorage::prove (&self): tree.read(), tree.prove(index).
STProve(index) ==
    /\ stOpen
    /\ stRes' = [op |-> "prove",
                 ret |-> IF tree_prove(stTree, index).ok THEN "Ok"
                         ELSE tree_prove(stTree, index).err]
    /\ UNCHANGED <<stOpen, stTree, stCopy, treeFile, treeMetaFile, stSeen>>
    /\ UNCHANGED notST

\* TreeStorage::stats (&self): tree.read(), then root() and len().
STStats ==
    /\ stOpen
    /\ stRes' = [op |-> "stats", ret |-> "Ok"]
    /\ UNCHANGED <<stOpen, stTree, stCopy, treeFile, treeMetaFile, stSeen>>
    /\ UNCHANGED notST

\* bincode::serialize followed by bincode::deserialize of the tree, as
\* persist_incremental_merkle_tree_fully's callers do: a copy without frontier.
STRoundTrip ==
    /\ stOpen
    /\ LET r == deserialize_tree(serialize_tree(stTree))
       IN  stCopy' = [valid |-> r.ok, tree |-> IF r.ok THEN r.tree ELSE NoTree]
    /\ stRes' = [op |-> "round_trip", ret |-> "Ok"]
    /\ UNCHANGED <<stOpen, stTree, treeFile, treeMetaFile, stSeen>>
    /\ UNCHANGED notST

\* The storage is dropped.
STDrop ==
    /\ stOpen
    /\ stOpen' = FALSE
    /\ stTree' = NoTree
    /\ stCopy' = [valid |-> FALSE, tree |-> NoTree]
    /\ stRes' = [op |-> "drop", ret |-> "Ok"]
    /\ UNCHANGED <<treeFile, treeMetaFile, stSeen>>
    /\ UNCHANGED notST

\* IncrementalTreeStorage::new on the same directory, asking for depth d.
STOpen(d) ==
    /\ ~stOpen
    /\ stOpen' = TRUE
    /\ stTree' = IF treeFile.exists THEN load_tree(treeFile.data, d)
                 ELSE tree_with_depth(d)
    /\ stRes' = [op |-> "open", ret |-> "Ok"]
    /\ UNCHANGED <<stCopy, treeFile, treeMetaFile, stSeen>>
    /\ UNCHANGED notST

NextST ==
    \/ \E c \in Commitments : STInsertCommitment(c)
    \/ \E c \in Commitments : STInsertFull(c)
    \/ STSave
    \/ STRoot
    \/ STLen
    \/ \E i \in 0..Pow2(MaxDepth) : STProve(i)
    \/ STStats
    \/ STRoundTrip
    \/ STDrop
    \/ \E d \in 1..MaxDepth : STOpen(d)

-----------------------------------------------------------------------------
(* tree/commitment.rs: the binary encoding of a Commitment *)

\* const EXPECTED_SIZE: usize = 4 + 8 + 32 + 32 + 32
EXPECTED_SIZE == 4 + 8 + 32 + 32 + 32

\* &data[offset..offset + n], offset counted from 0
Slice(data, offset, n) == SubSeq(data, offset + 1, offset + n)

\* Commitment::to_bytes
to_bytes(c) ==
    le_bytes(c.version, 4) \o le_bytes(c.commitment_index, 8)
        \o c.hash \o c.random_secret \o c.nullifier

\* from_bytes with a plausible slip: `offset += 32` is missing after the
\* hash, so random_secret is copied from the bytes of the hash.
from_bytes_overlap(data) ==
    IF Len(data) < EXPECTED_SIZE
    THEN [ok |-> FALSE, err |-> "InvalidData"]
    ELSE [ok |-> TRUE,
          value |-> [version |-> from_le_bytes(Slice(data, 0, 4)),
                     commitment_index |-> from_le_bytes(Slice(data, 4, 8)),
                     hash |-> Slice(data, 12, 32),
                     random_secret |-> Slice(data, 12, 32),
                     nullifier |-> Slice(data, 44, 32)]]

\* Commitment::from_bytes: Err(InvalidData) or the parsed Commitment.  Bytes
\* after the first 108 are not looked at.
from_bytes(data) ==
    IF Len(data) < EXPECTED_SIZE
    THEN [ok |-> FALSE, err |-> "InvalidData"]
    ELSE [ok |-> TRUE,
          value |-> [version |-> from_le_bytes(Slice(data, 0, 4)),
                     commitment_index |-> from_le_bytes(Slice(data, 4, 8)),
                     hash |-> Slice(data, 12, 32),
                     random_secret |-> Slice(data, 44, 32),
                     nullifier |-> Slice(data, 76, 32)]]

\* Values of the u32 field: the largest one is the largest integer the
\* model checker represents.
CodecVersions == { 0, 1, 258, 2147483647 }

\* Values of the u64 field.
CodecIndexes == { 0, 42, 65538, 2147483647 }

\* Values of the [u8; 32] fields: a constant array and two arrays whose
\* bytes all differ.
CodecHashes ==
    { Bytes32(1), [i \in 1..32 |-> i], [i \in 1..32 |-> 255 - i] }

\* The commitments encoded.
CodecCommitments ==
    [version : CodecVersions, commitment_index : CodecIndexes,
     hash : CodecHashes, random_secret : CodecHashes, nullifier : CodecHashes]

\* No commitment.
NoCommitment == [version |-> 0, commitment_index |-> 0, hash |-> << >>,
                 random_secret |-> << >>, nullifier |-> << >>]

\* Lengths a buffer is cut to, and the bytes appended to one.
CutLengths == { 0, 12, EXPECTED_SIZE - 1 }

\* Commitment::new
CodecInit ==
    /\ cmtValue \in CodecCommitments
    /\ cmtData = << >>
    /\ cmtRes = [op |-> "new", ret |-> "Ok", commitment |-> NoCommitment]

\* Commitment::to_bytes on the commitment at hand
CodecToBytes ==
    /\ cmtData' = to_bytes(cmtValue)
    /\ cmtRes' = [op |-> "to_bytes", ret |-> "Ok", commitment |-> NoCommitment]
    /\ UNCHANGED cmtValue
    /\ UNCHANGED notCodec

\* Commitment::from_bytes on the buffer at hand, Ok path
CodecFromBytes ==
    /\ from_bytes(cmtData).ok
    /\ cmtRes' = [op |-> "from_bytes", ret |-> "Ok",
                  commitment |-> from_bytes(cmtData).value]
    /\ UNCHANGED <<cmtValue, cmtData>>
    /\ UNCHANGED notCodec

\* Commitment::from_bytes on the buffer at hand, Err(InvalidData) path
CodecFromBytesInvalid ==
    /\ ~from_bytes(cmtData).ok
    /\ cmtRes' = [op |-> "from_bytes", ret |-> from_bytes(cmtData).err,
                  commitment |-> NoCommitment]
    /\ UNCHANGED <<cmtValue, cmtData>>
    /\ UNCHANGED notCodec

\* The caller hands over only the first n bytes of an encoding.
CodecCut(n) ==
    /\ Len(cmtData) = EXPECTED_SIZE
    /\ cmtData' = SubSeq(cmtData, 1, n)
    /\ cmtRes' = [op |-> "cut", ret |-> "Ok", commitment |-> NoCommitment]
    /\ UNCHANGED cmtValue
    /\ UNCHANGED notCodec

\* The caller hands over an encoding followed by one more byte.
CodecExtend(b) ==
    /\ Len(cmtData) = EXPECTED_SIZE
    /\ cmtData' = Append(cmtData, b)
    /\ cmtRes' = [op |-> "extend", ret |-> "Ok", commitment |-> NoCommitment]
    /\ UNCHANGED cmtValue
    /\ UNCHANGED notCodec

NextCodec ==
    \/ CodecToBytes
    \/ CodecFromBytes
    \/ CodecFromBytesInvalid
    \/ \E n \in CutLengths : CodecCut(n)
    \/ \E b \in {0, 255} : CodecExtend(b)

-----------------------------------------------------------------------------
(* Specifications *)

\* A subsystem that takes no part in a specification rests in one state.
IMTParked ==
    /\ depth = 1 /\ leaves = <<>> /\ frontier = <<>>
    /\ imtRes = [op |-> "none", arg |-> <<>>, ret |-> "Ok", val |-> 0]
    /\ imtUpdated = FALSE

SMTParked ==
    /\ smtDepth = 1 /\ smtRoot = Empty /\ smtDigest = zero_digest
    /\ smtKV = [k \in SmtKeys |-> NoValue]
    /\ smtRes = [op |-> "none", key |-> <<>>, value |-> <<>>, ret |-> "Ok"]

PMTParked ==
    /\ enable_wal = FALSE /\ dataFile = << >> /\ metaFile = << >> /\ walFile = << >>
    /\ pmtOpen = FALSE /\ metadata = NoMetadata /\ memLeaves = << >>
    /\ cache = cache_new(0) /\ pmtPc = "idle" /\ pmtOp = NoOp
    /\ pmtRes = [op |-> "none", ret |-> "Ok"]
    /\ pmtSeen = NotSeen /\ pmtLogged = << >> /\ pmtClean = TRUE /\ pmtOps = 0
    /\ pmtDone = << >>

STParked ==
    /\ stOpen = FALSE /\ stTree = NoTree
    /\ stCopy = [valid |-> FALSE, tree |-> NoTree]
    /\ treeFile = NoFile /\ treeMetaFile = NoFile
    /\ stRes = [op |-> "none", ret |-> "Ok"] /\ stSeen = StNotSeen

CodecParked ==
    /\ cmtValue = NoCommitment /\ cmtData = << >>
    /\ cmtRes = [op |-> "none", ret |-> "Ok", commitment |-> NoCommitment]

PagesParked ==
    /\ pgFile = << >> /\ pgCache = cache_new(0) /\ pgWritten = << >>
    /\ pgRecent = << >> /\ pgRes = [op |-> "none", ret |-> "Ok"]

\* The incremental Merkle tree alone.
InitIMT == IMTInit /\ SMTParked /\ PMTParked /\ STParked /\ CodecParked /\ PagesParked

SpecIMT == InitIMT /\ [][NextIMT]_vars

\* The sparse Merkle tree alone.
InitSMT ==
    SMTInit /\ IMTParked /\ PMTParked /\ STParked /\ CodecParked /\ PagesParked

SpecSMT == InitSMT /\ [][NextSMT]_vars

\* The persistent Merkle tree and its data directory alone.
InitPMT ==
    PMTInit /\ IMTParked /\ SMTParked /\ STParked /\ CodecParked /\ PagesParked

SpecPMT == InitPMT /\ [][NextPMT]_vars

\* The tree-storage facade and its directory alone.
InitST ==
    STInit /\ IMTParked /\ SMTParked /\ PMTParked /\ CodecParked /\ PagesParked

SpecST == InitST /\ [][NextST]_vars

\* The commitment codec alone.
InitCodec ==
    CodecInit /\ IMTParked /\ SMTParked /\ PMTParked /\ STParked /\ PagesParked

SpecCodec == InitCodec /\ [][NextCodec]_vars

\* write_leaf_to_disk and read_leaf_from_disk on leaves.dat alone.
InitPages ==
    PagesInit /\ IMTParked /\ SMTParked /\ PMTParked /\ STParked /\ CodecParked

SpecPages == InitPages /\ [][NextPages]_vars

\* The PageCache alone.
InitCache ==
    CacheInit /\ IMTParked /\ SMTParked /\ PMTParked /\ STParked /\ CodecParked

SpecCache == InitCache /\ [][NextCache]_vars

-----------------------------------------------------------------------------
(* Claims about the incremental Merkle tree *)

\* C1: after any sequence of successful appends and updates, for every
\* index i < len(), prove(i) succeeds and prove(i).verify(root()) is true.
C1_ProofsVerify ==
    \A i \in 0..(len - 1) :
        /\ prove(i).ok
        /\ verify(prove(i), root)

\* C1 witness: a depth-2 tree holding three leaves, the last call a
\* successful update, whose proofs all verify.
C1_Witness ==
    /\ depth = 2 /\ len = 3
    /\ imtRes.op = "update" /\ imtRes.ret = "Ok"
    /\ \A i \in 0..(len - 1) : prove(i).ok /\ verify(prove(i), root)

\* C2: root() equals the reference value node_hash(depth, 0), where
\* node_hash(0, i) is leaves[i] for i < len and zero_hashes[0] otherwise and
\* node_hash(l, i) = hash_pair(node_hash(l-1, 2i), node_hash(l-1, 2i+1)).
C2_RootIsNodeHash ==
    root = node_hash_at(leaves, zero_hashes, capacity, depth, 0)

\* C2 witness: a partially filled depth-2 tree (odd number of leaves, so
\* zero hashes enter the reduction at both levels) after an append.
C2_Witness ==
    /\ depth = 2 /\ len = 1
    /\ imtRes.op = "append"
    /\ root = node_hash_at(leaves, zero_hashes, capacity, depth, 0)
    /\ root # At(zero_hashes, depth)

\* C11: a successful append on a tree with len() = n < capacity returns
\* index n, makes len() = n + 1, stores hash_bytes(leaf_data) as leaf n and
\* leaves the leaves 0..n-1 unchanged; so the index returned by an append is
\* always the position of the last leaf (0, 1, 2, ... without gaps or repeats).
C11_AppendIndex ==
    /\ []((imtRes.op = "append" /\ imtRes.ret = "Ok") =>
            /\ imtRes.val = len - 1
            /\ At(leaves, imtRes.val) = hash_bytes(imtRes.arg))
    /\ [][(imtRes'.op = "append" /\ imtRes'.ret = "Ok") =>
            /\ Len(leaves) < capacity
            /\ imtRes'.val = Len(leaves)
            /\ Len(leaves') = Len(leaves) + 1
            /\ At(leaves', Len(leaves)) = hash_bytes(imtRes'.arg)
            /\ SubSeq(leaves', 1, Len(leaves)) = leaves]_vars

\* C11 witness: the third append on a depth-2 tree returned index 2 and the
\* three leaves are the hashes of three appended byte strings, the last two
\* of them different.
C11_Witness ==
    /\ depth = 2 /\ len = 3
    /\ imtRes.op = "append" /\ imtRes.ret = "Ok" /\ imtRes.val = 2
    /\ At(leaves, 2) = hash_bytes(imtRes.arg)
    /\ At(leaves, 1) # At(leaves, 2)

\* C12: when len() equals capacity, append fails with TreeFull and leaves
\* the leaves, len() and root() unchanged; a full tree stays full and len()
\* never decreases.
C12_FullStaysFull ==
    [][/\ (Len(leaves) = capacity /\ imtRes'.op = "append") =>
            /\ imtRes'.ret = "TreeFull"
            /\ leaves' = leaves
            /\ root_of(leaves', depth') = root
       /\ Len(leaves') >= Len(leaves)
       /\ Len(leaves') <= capacity
       /\ is_full => is_full']_vars

\* C12 witness: a full depth-2 tree on which the last append returned
\* TreeFull.
C12_Witness ==
    /\ depth = 2 /\ len = 4 /\ is_full
    /\ imtRes.op = "append" /\ imtRes.ret = "TreeFull"

\* C12 for the facade: insert_commitment on a full tree fails with TreeFull
\* and leaves the tree unchanged, and inserts never shrink the tree.
C12_FacadeFull ==
    [][(stRes'.op = "insert_commitment") =>
            /\ Len(stTree.leaves) = stTree.capacity =>
                   (stRes'.ret = "TreeFull" /\ stTree' = stTree)
            /\ Len(stTree'.leaves) >= Len(stTree.leaves)
            /\ Len(stTree'.leaves) <= stTree.capacity]_vars

\* C13: on a tree with len() = n, update(i, data) with i >= n fails with
\* IndexOutOfBounds and prove(i) with i >= n fails with LeafNotAppended;
\* neither call changes the leaves, len() or root(), and after such a failure
\* update and prove with i < n and append (below capacity) still succeed.
C13_ErrorsKeepState ==
    /\ [](\A i \in 0..(capacity + 1) :
            /\ prove(i).ok <=> i < len
            /\ ~prove(i).ok => prove(i).err = "LeafNotAppended")
    /\ [][/\ (imtRes'.op = "update" /\ imtRes'.arg[1] >= Len(leaves)) =>
               /\ imtRes'.ret = "IndexOutOfBounds"
               /\ leaves' = leaves /\ root_of(leaves', depth') = root
          /\ (imtRes'.op = "prove" /\ imtRes'.arg[1] >= Len(leaves)) =>
               /\ imtRes'.ret = "LeafNotAppended"
               /\ leaves' = leaves /\ root_of(leaves', depth') = root
          /\ (imtRes.ret \in {"IndexOutOfBounds", "LeafNotAppended"}) =>
               /\ (imtRes'.op \in {"update", "prove"}
                      /\ imtRes'.arg[1] < Len(leaves)) => imtRes'.ret = "Ok"
               /\ (imtRes'.op = "append" /\ Len(leaves) < capacity) =>
                      imtRes'.ret = "Ok"]_vars

\* C13 witness: on a depth-2 tree with two leaves, update(2, ..) has just
\* returned IndexOutOfBounds; prove(2) fails and prove(1) succeeds.
C13_Witness ==
    /\ depth = 2 /\ len = 2
    /\ imtRes.op = "update" /\ imtRes.arg[1] = 2
    /\ imtRes.ret = "IndexOutOfBounds"
    /\ ~prove(2).ok /\ prove(1).ok

\* C13, second half: a valid update has just succeeded on a tree whose
\* leaf vector is still short of capacity (the call before it may have been
\* any failed one).
C13_ValidAfter ==
    /\ depth = 2 /\ len = 2
    /\ imtRes.op = "update" /\ imtRes.ret = "Ok" /\ imtRes.arg[1] = 1

\* C14 (I-IMT-2): after every successful append on a tree on which no
\* update has been performed, frontier[depth] equals root().
C14_FrontierIsRoot ==
    (imtRes.op = "append" /\ imtRes.ret = "Ok" /\ ~imtUpdated) =>
        At(frontier, depth) = root

\* C14: the state that breaks it.  A depth-1 tree after two appends and no
\* update: the right-child branch of append reads frontier[0], which append
\* never writes, so frontier[1] pairs zero_hashes[0] with the new leaf while
\* root() pairs leaf 0 with it.
C14_FrontierStale ==
    /\ depth = 1 /\ len = 2 /\ ~imtUpdated
    /\ imtRes.op = "append" /\ imtRes.ret = "Ok"
    /\ At(frontier, 0) = At(zero_hashes, 0)
    /\ At(frontier, 1) = hash_pair(At(zero_hashes, 0), At(leaves, 1))
    /\ root = hash_pair(At(leaves, 0), At(leaves, 1))
    /\ At(frontier, 1) # root

\* C25: a successful update(i, data), i < len(), makes leaf i equal to
\* hash_bytes(data) and leaves len() and every other leaf unchanged; root()
\* afterwards is the reduction of the new leaves (the reference node hash of
\* the new leaf vector), whatever the frontier, which update does not touch;
\* prove(i) verifies against the new root() and, when the leaf hash changed,
\* does not verify against the root() of before the update.
C25_UpdateReplacesLeaf ==
    /\ []((imtRes.op = "update" /\ imtRes.ret = "Ok") =>
            LET i == imtRes.arg[1]
            IN  /\ i < len
                /\ At(leaves, i) = hash_bytes(Tail(imtRes.arg))
                /\ root = node_hash_at(leaves, zero_hashes, capacity, depth, 0)
                /\ prove(i).ok /\ prove(i).leaf_index = i
                /\ verify(prove(i), root))
    /\ [][(imtRes'.op = "update" /\ imtRes'.ret = "Ok") =>
            LET i == imtRes'.arg[1]
            IN  /\ i < Len(leaves)
                /\ Len(leaves') = Len(leaves)
                /\ \A j \in 0..(Len(leaves) - 1) :
                       j # i => At(leaves', j) = At(leaves, j)
                /\ frontier' = frontier
                /\ At(leaves', i) # At(leaves, i) =>
                       ~verify(prove_of(leaves', depth', i), root)]_vars

\* C25 witness: on a depth-2 tree with three leaves, update(1, data) has
\* just succeeded: leaf 1 is hash_bytes(data), it differs from both its
\* neighbours, its proof verifies against root(), and the frontier, which
\* update left alone, does not hold root().
C25_Witness ==
    /\ depth = 2 /\ len = 3
    /\ imtRes.op = "update" /\ imtRes.ret = "Ok" /\ imtRes.arg[1] = 1
    /\ At(leaves, 1) = hash_bytes(Tail(imtRes.arg))
    /\ At(leaves, 1) # At(leaves, 0) /\ At(leaves, 1) # At(leaves, 2)
    /\ verify(prove(1), root)
    /\ At(frontier, depth) # root

\* The index, at level l, of the sibling of the node above leaf i.
SiblingIndex(i, l) ==
    LET idx == i \div Pow2(l)
    IN  IF idx % 2 = 0 THEN idx + 1 ELSE idx - 1

\* C26: for every i < len(), prove(i) returns leaf_index = i, leaf =
\* leaves[i] and exactly depth siblings; siblings[l] is the hash of the
\* level-l subtree that is the sibling of the node above leaf i (the
\* reference node hash), and it is zero_hashes[l] when none of that
\* subtree's leaves has been appended.
C26_ProofShape ==
    \A i \in 0..(len - 1) :
        LET proof == prove(i)
        IN  /\ proof.ok
            /\ proof.leaf_index = i
            /\ proof.leaf = At(leaves, i)
            /\ Len(proof.siblings) = depth
            /\ \A l \in 0..(depth - 1) :
                   LET sib == SiblingIndex(i, l)
                   IN  /\ At(proof.siblings, l) =
                              node_hash_at(leaves, zero_hashes, capacity, l, sib)
                       /\ sib * Pow2(l) >= len =>
                              At(proof.siblings, l) = At(zero_hashes, l)

\* C26 witness: a depth-2 tree with one leaf, just asked for prove(0): both
\* siblings stand for empty subtrees, zero_hashes[0] and zero_hashes[1],
\* which differ.
C26_Witness ==
    /\ depth = 2 /\ len = 1
    /\ imtRes.op = "prove" /\ imtRes.ret = "Ok" /\ imtRes.arg = <<0>>
    /\ prove(0).siblings = <<At(zero_hashes, 0), At(zero_hashes, 1)>>
    /\ At(zero_hashes, 0) # At(zero_hashes, 1)

\* C26, the other case: a depth-2 tree with three leaves, just asked for
\* prove(2): the level-0 sibling is empty and the level-1 sibling is the
\* hash of the two leaves 0 and 1.
C26_FilledSibling ==
    /\ depth = 2 /\ len = 3
    /\ imtRes.op = "prove" /\ imtRes.ret = "Ok" /\ imtRes.arg = <<2>>
    /\ prove(2).siblings =
           <<At(zero_hashes, 0), hash_pair(At(leaves, 0), At(leaves, 1))>>

\* C27: a freshly created IncrementalMerkleTree of depth d (and any tree
\* without leaves) has root() = zero_hashes[d], where zero_hashes[0] =
\* hash_bytes([0x00]) and zero_hashes[l+1] = hash_pair(zero_hashes[l],
\* zero_hashes[l]) for l < d; zero_hash(level) is Some(zero_hashes[level])
\* exactly for the levels 0..d.
C27_EmptyRoot ==
    /\ imtRes.op = "new" => len = 0
    /\ len = 0 => root = At(zero_hashes, depth)
    /\ Len(zero_hashes) = depth + 1
    /\ At(zero_hashes, 0) = hash_bytes(<<0>>)
    /\ \A l \in 0..(depth - 1) :
           At(zero_hashes, l + 1) = hash_pair(At(zero_hashes, l), At(zero_hashes, l))
    /\ \A level \in 0..(MaxDepth + 2) :
           /\ zero_hash(level).some <=> level <= depth
           /\ zero_hash(level).some =>
                  zero_hash(level).value = At(zero_hashes, level)

\* C27 witness: the depth-2 tree as with_depth returns it: no leaves, and
\* root() is zero_hashes[2], the pair of zero_hashes[1] with itself, which
\* is none of the lower zero hashes.
C27_Witness ==
    /\ depth = 2 /\ imtRes.op = "new" /\ len = 0
    /\ root = At(zero_hashes, 2)
    /\ root = hash_pair(At(zero_hashes, 1), At(zero_hashes, 1))
    /\ root # At(zero_hashes, 1) /\ root # At(zero_hashes, 0)
    /\ zero_hash(2).some /\ ~zero_hash(3).some

-----------------------------------------------------------------------------
(* Claims about the sparse Merkle tree *)

\* The keys inserted so far.
Inserted == { k \in SmtKeys : smtKV[k].some }

\* The terminal node (Empty or a Leaf) that get(key) reaches.
Terminal(key) == get_descend(smtRoot, key, 0, <<>>).node

\* C3: after any sequence of successful inserts, for every inserted key k,
\* get(k) returns (Some(v), proof) with v the stored value, and
\* check_proof(k, Some(v), proof, commit()) accepts.
C3_InclusionVerifies ==
    \A k \in Inserted :
        LET g == get(k)
        IN  /\ g.some
            /\ g.value = smtKV[k].value
            /\ check_proof(k, [some |-> TRUE, value |-> g.value], g.proof, commit)

\* C3 witness: three stored keys, one of them below two branches, all
\* with accepted inclusion proofs.
C3_Witness ==
    /\ Cardinality(Inserted) >= 3
    /\ \E k \in Inserted : Len(get(k).proof.sibling_hashes) >= 2
    /\ \A k \in Inserted :
           check_proof(k, [some |-> TRUE, value |-> get(k).value], get(k).proof, commit)

RECURSIVE Trie(_, _)
Trie(S, h) ==
    IF S = {} THEN Empty
    ELSE IF Cardinality(S) = 1
         THEN LET k == CHOOSE x \in S : TRUE IN new_leaf(k, smtKV[k].value)
         ELSE new_branch(Trie({ k \in S : ~key_bit(k, h) }, h + 1),
                         Trie({ k \in S : key_bit(k, h) }, h + 1))

\* The outcome of inserting (k1, v1) and then (k2, v2) into the tree with
\* root node rootNode: the commitment reached, or a panic.
insert_two(rootNode, d, k1, v1, k2, v2) ==
    LET r1 == insert_of(rootNode, d, k1, v1)
    IN  IF r1.panic THEN [panic |-> TRUE]
        ELSE LET r2 == insert_of(r1.root, d, k2, v2)
             IN  IF r2.panic THEN [panic |-> TRUE]
                 ELSE [panic |-> FALSE, digest |-> get_hash(r2.root)]

\* C5: insertion is order-independent for distinct keys: from any tree built
\* by inserts, inserting two further pairs with distinct new keys in either
\* order has the same outcome: both orders complete, with the same root
\* commitment, or neither does (any two orders of the same set differ by
\* such swaps).
C5_OrderIndependent ==
    smtRes.ret # "panic" =>
        \A k1, k2 \in SmtKeys \ Inserted :
            k1 # k2 =>
                LET ab == insert_two(smtRoot, smtDepth, k1, <<97>>, k2, <<>>)
                    ba == insert_two(smtRoot, smtDepth, k2, <<>>, k1, <<97>>)
                IN  /\ ab.panic = ba.panic
                    /\ ~ab.panic => ab.digest = ba.digest

\* The part of C5 that the code does satisfy: whenever the inserts
\* complete, the commitment is the one the set of stored pairs determines.
CanonicalWhenBuilt ==
    commit = get_hash(Trie(Inserted, 0))

\* One order of a set of three keys completes while another panics: the
\* tree holds <<3>> (digest bits 00..), and inserting <<0>> (bits 1..) then
\* <<1>> (bits 01..) succeeds while <<1>> then <<0>> panics at depth 1.
C5_OrderMatters ==
    /\ smtDepth = 1
    /\ Inserted = { <<3>> }
    /\ ~insert_two(smtRoot, smtDepth, <<0>>, <<97>>, <<1>>, <<>>).panic
    /\ insert_two(smtRoot, smtDepth, <<1>>, <<>>, <<0>>, <<97>>).panic

SamePrefix(k1, k2, d) == \A i \in 0..(d - 1) : key_bit(k1, i) = key_bit(k2, i)

\* The keys of the leaves stored in the tree under node.
RECURSIVE LeafKeys(_)
LeafKeys(node) ==
    CASE node.type = "Leaf" -> {node.key}
      [] node.type = "Branch" -> LeafKeys(node.left) \cup LeafKeys(node.right)
      [] OTHER -> {}

\* C18: inserting a key whose digest agrees with the digest of a different,
\* already stored key on the first depth bits fails with a KeyCollision
\* error reported to the caller; the key is not inserted and the tree (root
\* commitment and stored pairs) is unchanged.
C18_CollisionReported ==
    [][(/\ smtRes'.op = "insert"
        /\ \E k2 \in LeafKeys(smtRoot) \ {smtRes'.key} :
               SamePrefix(smtRes'.key, k2, smtDepth))
       => /\ smtRes'.ret = "KeyCollision"
          /\ smtRoot' = smtRoot /\ smtDigest' = smtDigest]_vars

\* C18: what the code does instead, first case.  The insert of a colliding
\* key panicked: no error value exists and the tree, taken by value, is gone.
C18_CollisionPanics ==
    /\ smtRes.op = "insert" /\ smtRes.ret = "panic"
    /\ \E k2 \in LeafKeys(smtRoot) \ {smtRes.key} :
           SamePrefix(smtRes.key, k2, smtDepth)
    /\ smtRes.key \notin LeafKeys(smtRoot)

\* C18: what the code does instead, second case.  The insert of a colliding
\* key succeeded: the key is stored next to a key with the same first depth
\* bits, and the root changed.
C18_CollisionStored ==
    /\ smtRes.op = "insert" /\ smtRes.ret = "Ok"
    /\ smtRes.key \in LeafKeys(smtRoot)
    /\ \E k2 \in LeafKeys(smtRoot) \ {smtRes.key} :
           SamePrefix(smtRes.key, k2, smtDepth)

\* C19 (I-SMT-2): in every tree reachable by successful inserts, no two
\* stored leaves have key digests that agree on their first depth bits.
C19_NoSharedPrefix ==
    \A k1 \in LeafKeys(smtRoot), k2 \in LeafKeys(smtRoot) :
        k1 # k2 => ~SamePrefix(k1, k2, smtDepth)

\* C19: the state that breaks it.  A depth-1 tree built by three successful
\* inserts holds <<0>> (digest bits 10..) and <<2>> (11..), which agree on
\* their first bit; <<2>> sits at height 2, below the depth of the tree.
C19_SharedPrefixStored ==
    /\ smtDepth = 1 /\ smtRes.ret = "Ok"
    /\ LeafKeys(smtRoot) = { <<0>>, <<1>>, <<2>> }
    /\ SamePrefix(<<0>>, <<2>>, smtDepth)
    /\ get_descend(smtRoot, <<2>>, 0, <<>>).node.key = <<2>>
    /\ Len(get_descend(smtRoot, <<2>>, 0, <<>>).sibling_hashes) = 2

\* Every Branch under node stores the hash of its current children.
RECURSIVE WellHashed(_)
WellHashed(node) ==
    node.type = "Branch" =>
        /\ node.hash = hash_branch(get_hash(node.left), get_hash(node.right))
        /\ WellHashed(node.left)
        /\ WellHashed(node.right)

\* C20 (I-SMT-1): in every tree reachable by inserts, every Branch node's
\* stored hash equals hash_branch(hash(left), hash(right)) of its current
\* children, and commit() equals the hash of the root node: all-zero for
\* Empty, hash_kv(key, value) for a Leaf, the stored hash for a Branch.
C20_BranchHashes ==
    /\ WellHashed(smtRoot)
    /\ commit = get_hash(smtRoot)
    /\ smtRoot.type = "Empty" => commit = zero_digest
    /\ smtRoot.type = "Leaf" => commit = hash_kv(smtRoot.key, smtRoot.value)
    /\ smtRoot.type = "Branch" =>
           commit = hash_branch(get_hash(smtRoot.left), get_hash(smtRoot.right))

\* C20 witness: a tree of three leaves with a Branch below the root Branch,
\* built by an insert that pushed a leaf down (two levels rehashed).
C20_Witness ==
    /\ smtDepth = 2 /\ smtRes.ret = "Ok"
    /\ Cardinality(LeafKeys(smtRoot)) = 3
    /\ smtRoot.type = "Branch"
    /\ smtRoot.left.type = "Branch" \/ smtRoot.right.type = "Branch"
    /\ WellHashed(smtRoot)
    /\ commit = hash_branch(get_hash(smtRoot.left), get_hash(smtRoot.right))

\* The number of leaves stored in the tree under node.
RECURSIVE LeafCount(_)
LeafCount(node) ==
    CASE node.type = "Leaf" -> 1
      [] node.type = "Branch" -> LeafCount(node.left) + LeafCount(node.right)
      [] OTHER -> 0

\* No Branch under node has two Empty children, and every Branch under node
\* has at least two leaves in its subtree.
RECURSIVE PathCompressed(_)
PathCompressed(node) ==
    node.type = "Branch" =>
        /\ ~(node.left.type = "Empty" /\ node.right.type = "Empty")
        /\ LeafCount(node) >= 2
        /\ PathCompressed(node.left)
        /\ PathCompressed(node.right)

\* C21 (I-SMT-3, path compression): in every tree reachable by inserts, no
\* Branch has two Empty children and every Branch subtree contains at least
\* two leaves (the Branch(Empty, Empty) frames pushed during insert always
\* receive a non-empty child before insert returns).
C21_PathCompressed ==
    /\ PathCompressed(smtRoot)
    /\ LeafCount(smtRoot) = Cardinality(LeafKeys(smtRoot))

\* C21 witness: the last insert met a leaf whose key shares its first digest
\* bit with the new key, so a Branch(Empty, Empty) frame was pushed; in the
\* tree returned that frame is the root, with one Empty child and the Branch
\* of the two leaves as the other.
C21_Witness ==
    /\ smtDepth = 2 /\ smtRes.op = "insert" /\ smtRes.ret = "Ok"
    /\ smtRoot.type = "Branch"
    /\ smtRoot.left.type = "Empty" /\ smtRoot.right.type = "Branch"
    /\ smtRoot.right.left.type = "Leaf" /\ smtRoot.right.right.type = "Leaf"
    /\ smtRes.key \in {smtRoot.right.left.key, smtRoot.right.right.key}
    /\ LeafCount(smtRoot) = 2

\* C27 for the sparse tree: a freshly created SparseMerkleTree, and any
\* tree whose root node is Empty, has commit() equal to the all-zero
\* digest; a tree holding a key never has.
C27_FreshSparseRoot ==
    /\ smtRes.op = "new" => smtRoot = Empty
    /\ smtRoot = Empty => commit = Repeat(0, 32)
    /\ Inserted # {} => commit # Repeat(0, 32)

\* C27 for the sparse tree, the fresh tree itself.
C27_FreshSparseWitness ==
    /\ smtRes.op = "new" /\ smtDepth = 2 /\ smtRoot = Empty
    /\ commit = Repeat(0, 32)

\* C37: as the unit test of the sparse Merkle tree asserts: for every key
\* k never inserted, get(k) returns (None, proof) and
\* check_proof(k, None, proof, commit()) returns None: the verifier rejects
\* the proof returned for an absent key when it is checked with None.
C37_AbsentRejected ==
    \A k \in SmtKeys \ Inserted :
        /\ ~get(k).some
        /\ ~check_proof(k, NoValue, get(k).proof, commit)

\* What the code does instead: a key never inserted whose proof, checked
\* with None, is accepted.  Its path ends in the leaf of a stored key with
\* different bytes and the same 31-byte hash input, stored with a value
\* that hashes like the empty string.
C37_AbsentAccepted ==
    \E k \in SmtKeys \ Inserted :
        /\ ~get(k).some
        /\ Terminal(k).type = "Leaf" /\ Terminal(k).key # k
        /\ Terminal(k).key \in Inserted
        /\ field_input(Terminal(k).key) = field_input(k)
        /\ check_proof(k, NoValue, get(k).proof, commit)

\* C37, the case of the unit test: the path of an absent key ends in the
\* leaf of a key with another digest, and the verifier rejects.
C37_AbsentRejectedWitness ==
    \E k \in SmtKeys \ Inserted :
        /\ ~get(k).some
        /\ Terminal(k).type = "Leaf"
        /\ field_input(Terminal(k).key) # field_input(k)
        /\ ~check_proof(k, NoValue, get(k).proof, commit)

\* The largest height at which a leaf sits under node, node being at
\* height h (0 for a subtree without leaves).
RECURSIVE MaxLeafHeight(_, _)
MaxLeafHeight(node, h) ==
    CASE node.type = "Leaf" -> h
      [] node.type = "Branch" ->
            LET l == MaxLeafHeight(node.left, h + 1)
                r == MaxLeafHeight(node.right, h + 1)
            IN  IF l >= r THEN l ELSE r
      [] OTHER -> 0

\* C36: bounded descent: in every tree of depth d reachable by successful
\* inserts the tree is keyed by at most d bits of the key digest: every
\* leaf sits at height at most d and every proof returned by get has at
\* most d sibling hashes.
C36_BoundedDescent ==
    /\ MaxLeafHeight(smtRoot, 0) <= smtDepth
    /\ \A k \in SmtKeys : Len(get(k).proof.sibling_hashes) <= smtDepth

\* What the code does instead: a depth-1 tree built by three successful
\* inserts has a leaf at height 2, and get returns the value of that key
\* with a proof of two sibling hashes.
C36_LeafBelowDepth ==
    /\ smtDepth = 1 /\ smtRes.op = "insert" /\ smtRes.ret = "Ok"
    /\ MaxLeafHeight(smtRoot, 0) = 2
    /\ \E k \in Inserted :
           /\ get(k).some
           /\ Len(get(k).proof.sibling_hashes) = 2
           /\ check_proof(k, [some |-> TRUE, value |-> get(k).value],
                          get(k).proof, commit)

-----------------------------------------------------------------------------
(* Claims about the persistent Merkle tree *)

\* s is an initial segment of t.
IsPrefix(s, t) == Len(s) <= Len(t) /\ s = SubSeq(t, 1, Len(s))

\* The tree has just been reopened after a kill inside an append that had
\* written its WAL frame.
ReopenedAfterKilledAppend ==
    /\ enable_wal /\ pmtOpen
    /\ pmtRes.op = "open" /\ pmtRes.prev.op = "kill"
    /\ pmtRes.prev.during = "append"
    /\ pmtRes.prev.before \in {"page", "meta_trunc", "meta_write"}

\* C6: crash recovery through the WAL: after a kill inside an append whose
\* WAL frame was written (before the page write, or after it and before the
\* metadata write), reopening replays the WAL: len() counts the interrupted
\* append, prove(index) returns its leaf, the leaves are those of all the
\* mutations whose frame was written, and the WAL is empty.
C6_WalRecovery ==
    ReopenedAfterKilledAppend =>
        /\ pmt_len = Len(pmtLogged)
        /\ memLeaves = pmtLogged
        /\ pmt_prove(pmtRes.prev.index).ok
        /\ pmt_prove(pmtRes.prev.index).leaf = pmtRes.prev.leaf_hash
        /\ walFile = << >>

\* What the code does instead: the second append is killed after its WAL
\* frame and before its page write; the reopened tree has len() = 1 and
\* both frames are still in wal.log.
C6_NotRecovered ==
    /\ ReopenedAfterKilledAppend
    /\ pmtRes.prev.before = "page" /\ pmtRes.prev.index = 1
    /\ pmt_len = 1
    /\ Len(pmtLogged) = 2
    /\ Len(walFile) = 2

\* C7: after successful appends and updates followed by a successful sync()
\* and a drop, the tree reopened on the same directory has the same root()
\* and len(), and every prove(i), i < len(), verifies against the root
\* observed before the drop.
C7_ReopenSame ==
    ( /\ pmtOpen /\ pmtClean
      /\ pmtRes.op = "open" /\ pmtRes.prev.op = "drop"
      /\ pmtSeen.valid /\ pmtSeen.synced )
    => /\ pmt_root = pmtSeen.root
       /\ pmt_len = pmtSeen.len
       /\ \A i \in 0..(pmt_len - 1) :
              /\ pmt_prove(i).ok
              /\ verify(pmt_prove(i), pmtSeen.root)

\* C7 witness: a full tree whose leaf 0 went through the mapping and leaf 1
\* through the page cache, synced, dropped and reopened, with the observed
\* root and verifying proofs.
C7_Witness ==
    /\ pmtOpen /\ pmtClean
    /\ pmtRes.op = "open" /\ pmtRes.prev.op = "drop"
    /\ pmtSeen.valid /\ pmtSeen.synced
    /\ pmtOps = 2
    /\ pmt_len = 2 /\ pmtSeen.len = 2
    /\ memLeaves[1] # memLeaves[2]
    /\ pmt_root = pmtSeen.root
    /\ \A i \in 0..1 : pmt_prove(i).ok /\ verify(pmt_prove(i), pmtSeen.root)

\* C9: commit order with the WAL enabled: within every append and update the
\* durable writes happen in the order WAL frame, leaf page, metadata; the
\* page has been written only when the frame of this mutation is the last
\* frame of wal.log, and metadata.dat has been touched only when the leaf is
\* on its page.
C9_CommitOrder ==
    (enable_wal /\ pmtOpen) =>
        /\ IsPrefix(pmtOp.writes, << "wal", "page", "meta_trunc", "meta" >>)
        /\ (pmtPc # "idle" /\ Len(pmtOp.writes) >= 2) =>
              /\ walFile # << >>
              /\ walFile[Len(walFile)] = WalEntry_new(pmtOp.index, pmtOp.leaf_hash)
        /\ (pmtPc # "idle" /\ Len(pmtOp.writes) >= 3) =>
              read_leaf_from_disk(dataFile, cache, pmtOp.index).res
                  = [some |-> TRUE, hash |-> pmtOp.leaf_hash]

\* C9 witness: an update of leaf 0 has completed with all of its writes.
C9_Witness ==
    /\ enable_wal /\ pmtOpen /\ pmtPc = "idle"
    /\ pmtOp.name = "update" /\ pmtOp.index = 0
    /\ pmtOp.writes = << "wal", "page", "meta_trunc", "meta" >>
    /\ pmtRes = [op |-> "update", ret |-> "Ok"]
    /\ metaFile = << saved_metadata(metadata, current_timestamp) >>

\* The steps of sync() that flush data or metadata.
FlushSteps == {"mmap_flush", "page_write", "data_flush", "meta_flush"}

\* C10: after sync() returns Ok the WAL has zero length and every cached
\* page is in leaves.dat; if a flush step of sync() fails, sync() returns
\* the error and the WAL is as it was.
C10_SyncTruncatesLast ==
    (pmtOpen /\ pmtRes.op = "sync") =>
        /\ pmtRes.ret = "Ok" =>
              /\ walFile = << >>
              /\ \A p \in DOMAIN cache.pages : dataFile[p] = cache.pages[p]
        /\ pmtRes.failed_at \in FlushSteps =>
              /\ pmtRes.ret = "Err"
              /\ walFile = pmtRes.wal_before

\* C10 witness: a sync() failed while writing back a cached page, with
\* frames in the WAL, and left them there.
C10_Witness ==
    /\ pmtOpen /\ enable_wal
    /\ pmtRes.op = "sync" /\ pmtRes.ret = "Err" /\ pmtRes.failed_at = "page_write"
    /\ Len(walFile) >= 2
    /\ walFile = pmtRes.wal_before

\* C15: if a page write or a metadata write fails with an Io error during
\* an append or update, the call returns the error and the in-memory state
\* (memory tree leaves, and the len() and root() served from the in-memory
\* metadata) is the same as before the call; the WAL record already written
\* stays in the WAL.
C15_ErrorKeepsMemory ==
    (pmtOpen /\ pmtRes.ret = "IoError") =>
        /\ memLeaves = pmtOp.before.leaves
        /\ pmt_len = pmtOp.before.metadata.next_index
        /\ pmt_root = pmtOp.before.metadata.root_hash
        /\ (enable_wal /\ pmtRes.at # "wal_write") =>
               /\ walFile # << >>
               /\ walFile[Len(walFile)] = WalEntry_new(pmtOp.index, pmtOp.leaf_hash)

\* C15: the state that breaks it.  The first append on a fresh tree failed
\* inside save_metadata (write_all): the call returned the error, yet len()
\* is 1, root() is the root of the one-leaf tree, the memory tree holds the
\* leaf, and metadata.dat is empty.
C15_MemoryAhead ==
    /\ pmtOpen /\ pmtRes = [op |-> "append", ret |-> "IoError", at |-> "meta_write"]
    /\ pmtOp.before.leaves = << >> /\ pmtOp.before.metadata.next_index = 0
    /\ pmt_len = 1
    /\ memLeaves = << pmtOp.leaf_hash >>
    /\ pmt_root = compute_root_hash(memLeaves)
    /\ pmt_root # pmtOp.before.metadata.root_hash
    /\ metaFile = << >>

\* C15, the part the code keeps: an error before the in-memory update (WAL
\* write, page load, page write) leaves the in-memory state as it was, and
\* the frame written before a page error is still the last frame of wal.log.
C15_EarlyErrorKeepsMemory ==
    (pmtOpen /\ pmtRes.ret = "IoError"
       /\ pmtRes.at \in {"wal_write", "load_page", "write_page"}) =>
        /\ memLeaves = pmtOp.before.leaves
        /\ metadata = pmtOp.before.metadata
        /\ (enable_wal /\ pmtRes.at # "wal_write") =>
               /\ walFile # << >>
               /\ walFile[Len(walFile)] = WalEntry_new(pmtOp.index, pmtOp.leaf_hash)

\* metadata.dat has been damaged since it was last written: the last call
\* was the damage itself or an open that failed on it.
MetadataDamaged ==
    \/ pmtRes.op = "damage"
    \/ pmtRes.op = "open" /\ pmtRes.ret # "Ok"

\* C16: opening a tree whose metadata.dat deserializes but whose stored
\* checksum differs from the CRC recomputed over (version, depth, leaf
\* count, root, last_sync) fails with ChecksumError and no tree is returned;
\* a record written by save_metadata passes the check (so an open fails
\* only on a damaged record).
C16_ChecksumGuardsOpen ==
    /\ (pmtRes.op = "open" /\ metaFile # << >> /\ ~verify_checksum(metaFile[1])) =>
           /\ pmtRes.ret = "ChecksumError"
           /\ ~pmtOpen /\ metadata = NoMetadata /\ memLeaves = << >>
    /\ (pmtRes.op = "open" /\ pmtRes.ret # "Ok") =>
           /\ pmtRes.ret = "ChecksumError"
           /\ pmtRes.prev.op = "damage"
    /\ (metaFile # << >> /\ ~MetadataDamaged) => verify_checksum(metaFile[1])
    /\ (pmtOpen /\ pmtRes.op = "open" /\ metaFile # << >>) =>
           /\ metadata = metaFile[1]
           /\ verify_checksum(metadata)

\* C16 witness: metadata.dat, written by a completed append, had its leaf
\* count changed on disk; the open that followed failed with ChecksumError
\* and returned no tree.
C16_Witness ==
    /\ ~pmtOpen /\ metadata = NoMetadata
    /\ pmtRes.op = "open" /\ pmtRes.ret = "ChecksumError"
    /\ pmtRes.prev = [op |-> "damage", ret |-> "Ok", field |-> "next_index"]
    /\ metaFile # << >> /\ ~verify_checksum(metaFile[1])
    /\ metaFile[1].checksum
           = crc32fast_hash(data_for_checksum(
                 [metaFile[1] EXCEPT !.next_index = 1]))

\* C16, second half: a tree reopened from the record save_metadata wrote
\* after two appends at different times.
C16_SavedPasses ==
    /\ pmtOpen /\ pmtRes.op = "open" /\ pmtRes.ret = "Ok"
    /\ metaFile # << >> /\ metadata = metaFile[1]
    /\ metadata.next_index = 2 /\ metadata.last_sync = 2
    /\ verify_checksum(metadata)

\* The leaf hashes append and update can store.
PmtLeafHashes == { sha256_hash_bytes(b) : b \in PmtInputs }

\* For every leaf count n, the roots of the trees that hold exactly n leaves.
RootsOfLen ==
    [n \in 0..pmt_capacity |->
        { compute_root_hash(lv) : lv \in [1..n -> PmtLeafHashes] }]

\* The root a new tree serves before its first append: zero_hashes[depth]
\* as computed by PersistentMerkleTree::compute_zero_hashes.
NewTreeRoot == At(pmt_compute_zero_hashes(PmtDepth), PmtDepth)

\* root and count belong together: r is the root of a tree of n leaves (for
\* n = 0 also the root of a new tree), and of no tree with another number
\* of leaves.
Corresponds(r, n) ==
    /\ r \in RootsOfLen[n] \/ (n = 0 /\ r = NewTreeRoot)
    /\ \A m \in 0..pmt_capacity :
           m # n => (r \notin RootsOfLen[m] /\ (m = 0 => r # NewTreeRoot))

\* C22: with one writer and any number of readers, root and leaf count are
\* never observed in a mixed state: whenever the metadata lock can be taken
\* for reading, and in every read a reader makes, root() is the root of a
\* tree with len() leaves (never the new root with the old count or the new
\* count with the old root); as long as no call has been cut short they are
\* the root and the count of the memory tree.
C22_RootMatchesCount ==
    /\ (pmtOpen /\ ~metadata_write_locked) =>
           /\ Corresponds(pmt_root, pmt_len)
           /\ pmtClean => pmt_len = Len(memLeaves)
    /\ (pmtOpen /\ pmtPc = "idle" /\ pmtClean /\ pmt_len > 0) =>
           pmt_root = compute_root_hash(memLeaves)
    /\ (pmtOpen /\ pmtRes.op = "read") =>
           /\ Corresponds(pmtRes.root, pmtRes.len)
           /\ pmtRes.root = pmt_root /\ pmtRes.len = pmt_len

\* C22 witness: a reader has read the tree after the second append: it saw
\* the root of the two-leaf tree together with the count 2.
C22_Witness ==
    /\ pmtOpen /\ pmtRes.op = "read" /\ pmtClean
    /\ pmtOp.name = "append" /\ pmtOp.index = 1
    /\ pmtRes.len = 2
    /\ pmtRes.root = compute_root_hash(memLeaves)
    /\ pmtRes.root # pmtOp.before.metadata.root_hash
    /\ Corresponds(pmtRes.root, 2)

\* C22, inside update: the metadata lock is free while update writes its
\* WAL frame and its page, and a reader taking it sees the root and the
\* count from before the call.
C22_ReadableInsideUpdate ==
    /\ pmtOpen /\ pmtClean /\ pmtPc = "meta_trunc" /\ pmtOp.name = "update"
    /\ ~metadata_write_locked
    /\ metadata = pmtOp.before.metadata
    /\ Corresponds(pmt_root, pmt_len)

\* Every proof the memory tree gives verifies against the root served.
AllProofsVerify ==
    \A i \in 0..pmt_capacity :
        pmt_prove(i).ok => verify(pmt_prove(i), pmt_root)

\* C23: under any interleaving of a writer executing append or update with
\* a reader, a proof returned to the reader by prove(i) is valid against the
\* root() the reader observes in the same read, for every i for which prove
\* succeeds: what a reader sees is the tree of one instant between two
\* writer calls, and every step of a writer call on the open tree (its
\* return with Ok or with an error included) keeps the proofs valid.
C23_ProofsMatchRoot ==
    /\ []((pmtOpen /\ pmtRes.op = "read") =>
            /\ pmtRes.root = pmt_root
            /\ \A i \in 0..pmt_capacity : pmtRes.proofs[i] = pmt_prove(i))
    /\ []((pmtOpen /\ pmtClean /\ pmtRes.op = "read") =>
            \A i \in 0..pmt_capacity :
                /\ pmtRes.proofs[i].ok <=> i < pmtRes.len
                /\ pmtRes.proofs[i].ok => verify(pmtRes.proofs[i], pmtRes.root))
    /\ [][(pmtOpen /\ pmtOpen' /\ <<memLeaves, metadata>>' # <<memLeaves, metadata>>
               /\ AllProofsVerify) =>
            \A i \in 0..pmt_capacity :
                prove_of(memLeaves', PmtDepth, i).ok =>
                    verify(prove_of(memLeaves', PmtDepth, i), metadata'.root_hash)]_vars

\* C23 witness: a reader has read the tree after an append and an update of
\* leaf 0 that changed its hash: the proof of leaf 0 carries the new leaf
\* and verifies against the root of the same read.
C23_Witness ==
    /\ pmtOpen /\ pmtClean /\ pmtRes.op = "read"
    /\ pmtOp.name = "update" /\ pmtOp.index = 0
    /\ pmtOp.before.leaves # memLeaves
    /\ pmtRes.len = 1
    /\ pmtRes.proofs[0].ok /\ pmtRes.proofs[0].leaf = pmtOp.leaf_hash
    /\ verify(pmtRes.proofs[0], pmtRes.root)
    /\ ~verify(pmtRes.proofs[0], pmtOp.before.metadata.root_hash)

\* C23, after a failed call: a reader has read the tree after an update
\* that returned an I/O error from save_metadata; the proof of the leaf is
\* valid against the root read with it.
C23_ReadAfterIoError ==
    /\ pmtOpen /\ pmtRes.op = "read" /\ ~pmtClean
    /\ pmtOp.name = "update" /\ pmtOp.before.leaves # memLeaves
    /\ pmtRes.proofs[0].ok /\ verify(pmtRes.proofs[0], pmtRes.root)
    /\ metaFile = << >>

\* C24: after every successful append or update of a PersistentMerkleTree
\* the root served by root() (stored in metadata) equals the root of the
\* in-memory tree and len() equals its leaf count, so prove(i) succeeds and
\* prove(i).verify(root()) holds for every i < len().
C24_MetadataFollowsMemory ==
    (pmtOpen /\ pmtRes.op \in {"append", "update"} /\ pmtRes.ret = "Ok") =>
        /\ pmt_root = compute_root_hash(memLeaves)
        /\ pmt_len = Len(memLeaves)
        /\ \A i \in 0..(pmt_len - 1) :
               /\ pmt_prove(i).ok
               /\ verify(pmt_prove(i), pmt_root)

\* C24 witness: the second append on a tree that was reopened in between
\* has just returned Ok: two different leaves, the root of the memory tree
\* served, both proofs verifying.
C24_Witness ==
    /\ pmtOpen /\ pmtRes = [op |-> "append", ret |-> "Ok"]
    /\ pmtOp.index = 1 /\ pmtOp.before.leaves # << >>
    /\ pmt_len = 2 /\ Len(memLeaves) = 2 /\ memLeaves[1] # memLeaves[2]
    /\ pmt_root = compute_root_hash(memLeaves)
    /\ pmt_root # pmtOp.before.metadata.root_hash
    /\ \A i \in 0..1 : pmt_prove(i).ok /\ verify(pmt_prove(i), pmt_root)

\* C24, for update: an update that changed leaf 0 has just returned Ok.
C24_UpdateWitness ==
    /\ pmtOpen /\ pmtRes = [op |-> "update", ret |-> "Ok"]
    /\ pmtOp.before.leaves # memLeaves
    /\ pmt_len = 1 /\ pmt_root = compute_root_hash(memLeaves)
    /\ verify(pmt_prove(0), pmt_root)

\* C30: durability of completed appends: after a kill at any point inside
\* an append or update (also between the set_len(0) and the write_all of
\* save_metadata), opening the directory again succeeds, len() is at least
\* the number of appends that had returned Ok, and prove(i) returns their
\* leaves (as last updated) unchanged; the leaf a killed update was
\* writing may hold the old or the new hash.
C30_CompletedAppendsSurvive ==
    /\ (~pmtOpen /\ pmtRes.op = "kill") =>
           load_or_create_metadata(metaFile, current_timestamp).ok
    /\ (pmtOpen /\ pmtRes.op = "open" /\ pmtRes.ret = "Ok"
           /\ pmtRes.prev.op = "kill") =>
           /\ pmt_len >= Len(pmtDone)
           /\ \A i \in 0..(Len(pmtDone) - 1) :
                  /\ pmt_prove(i).ok
                  /\ \/ pmt_prove(i).leaf = At(pmtDone, i)
                     \/ /\ pmtRes.prev.during = "update"
                        /\ pmtRes.prev.index = i
                        /\ pmt_prove(i).leaf = pmtRes.prev.leaf_hash

\* What the code does instead: one append has returned Ok; a second append
\* is killed inside save_metadata, after set_len(0) and before write_all.
\* metadata.dat is empty, so the tree opened next has new metadata: len()
\* is 0 and prove(0) fails, although leaf 0 is still in leaves.dat.
C30_AppendLost ==
    /\ pmtOpen /\ pmtRes.op = "open" /\ pmtRes.ret = "Ok"
    /\ pmtRes.prev.op = "kill" /\ pmtRes.prev.during = "append"
    /\ pmtRes.prev.before = "meta_write" /\ pmtRes.prev.index = 1
    /\ Len(pmtDone) = 1
    /\ metaFile = << >>
    /\ pmt_len = 0 /\ ~pmt_prove(0).ok
    /\ read_leaf_from_disk(dataFile, cache_new(CachePages), 0).res.some
    /\ read_leaf_from_disk(dataFile, cache_new(CachePages), 0).res.hash
           = At(pmtDone, 0)

\* C31: self-consistency after a crash: on the tree reopened after a kill
\* at any point of an append or update, the root loaded from metadata.dat
\* matches the leaves loaded from leaves.dat: for every i < len(), prove(i)
\* succeeds and verifies against root().
C31_ReopenedSelfConsistent ==
    (pmtOpen /\ pmtRes.op = "open" /\ pmtRes.ret = "Ok" /\ pmtRes.prev.op = "kill") =>
        \A i \in 0..(pmt_len - 1) :
            /\ pmt_prove(i).ok
            /\ verify(pmt_prove(i), pmt_root)

\* What the code does instead: an update of leaf 0 is killed after
\* write_leaf_to_disk and before save_metadata.  leaves.dat holds the new
\* leaf, metadata.dat the root of the old one; the reopened tree proves the
\* new leaf and serves the old root, and the proof does not verify.
C31_StaleRootAfterKilledUpdate ==
    /\ pmtOpen /\ pmtRes.op = "open" /\ pmtRes.ret = "Ok"
    /\ pmtRes.prev.op = "kill" /\ pmtRes.prev.during = "update"
    /\ pmtRes.prev.before = "meta_trunc" /\ pmtRes.prev.index = 0
    /\ pmt_len = 1
    /\ metaFile # << >> /\ metadata = metaFile[1]
    /\ pmt_prove(0).ok /\ pmt_prove(0).leaf = pmtRes.prev.leaf_hash
    /\ pmt_root = compute_root_hash(pmtDone)
    /\ pmt_root # compute_root_hash(memLeaves)
    /\ ~verify(pmt_prove(0), pmt_root)

\* The page of the leaf of the call in progress (or of the last call).
OpPage == pmtOp.index \div LeavesPerPage

\* C33: write-through of cached pages: once write_leaf_to_disk has returned
\* Ok for a leaf of a page outside the mapping, that page is cached and its
\* bytes in leaves.dat equal the cached bytes; and at every quiescent point
\* (no call in progress) no cached page is dirty: every cached page equals
\* the page in leaves.dat, so an eviction loses nothing.
C33_WriteThrough ==
    /\ (pmtOpen /\ pmtPc \in {"meta_trunc", "meta_write"} /\ OpPage >= MmapPages) =>
           /\ OpPage \in DOMAIN cache.pages
           /\ cache.pages[OpPage] = dataFile[OpPage]
           /\ page_read(dataFile[OpPage], pmtOp.index % LeavesPerPage)
                  = [some |-> TRUE, hash |-> pmtOp.leaf_hash]
    /\ (pmtOpen /\ pmtPc = "idle") =>
           \A p \in DOMAIN cache.pages : cache.pages[p] = dataFile[p]

\* What the code does instead: the append of leaf 1 (a page outside the
\* mapping) stored the leaf in the cached page and then failed in
\* write_page_to_disk.  The call has returned the error, the cached page
\* holds the leaf and leaves.dat does not: the cached page is dirty.
C33_DirtyPageAfterError ==
    /\ pmtOpen /\ pmtPc = "idle"
    /\ pmtRes = [op |-> "append", ret |-> "IoError", at |-> "write_page"]
    /\ OpPage >= MmapPages /\ OpPage \in DOMAIN cache.pages
    /\ page_read(cache.pages[OpPage], pmtOp.index % LeavesPerPage)
           = [some |-> TRUE, hash |-> pmtOp.leaf_hash]
    /\ ~page_read(dataFile[OpPage], pmtOp.index % LeavesPerPage).some
    /\ pmt_len = pmtOp.index

\* C33, the part the code keeps: a state in which write_leaf_to_disk has
\* just returned Ok for a leaf of a cached page.
C33_WrittenThrough ==
    /\ pmtOpen /\ pmtPc = "meta_trunc" /\ OpPage >= MmapPages
    /\ cache.pages[OpPage] = dataFile[OpPage]
    /\ page_read(dataFile[OpPage], pmtOp.index % LeavesPerPage)
           = [some |-> TRUE, hash |-> pmtOp.leaf_hash]

-----------------------------------------------------------------------------
(* Claims about the tree-storage facade *)

\* C8: a storage opened on a directory after save() reports the root() and
\* len() observed at the save, and prove(i) verifies against that root for
\* every inserted index i; a tree serialized and deserialized (without its
\* frontier) has the same root(), len() and proofs as the original.
C8_SaveReopenSame ==
    /\ (stOpen /\ stRes.op = "open" /\ stSeen.valid /\ stSeen.saved) =>
          /\ tree_root(stTree) = stSeen.root
          /\ Len(stTree.leaves) = stSeen.len
          /\ \A i \in 0..(stSeen.len - 1) :
                 /\ tree_prove(stTree, i).ok
                 /\ verify(tree_prove(stTree, i), stSeen.root)
    /\ (stOpen /\ stCopy.valid) =>
          /\ tree_root(stCopy.tree) = tree_root(stTree)
          /\ Len(stCopy.tree.leaves) = Len(stTree.leaves)
          /\ \A i \in 0..(Len(stTree.leaves) - 1) :
                 /\ tree_prove(stCopy.tree, i) = tree_prove(stTree, i)
                 /\ verify(tree_prove(stCopy.tree, i), tree_root(stTree))

\* C8 witness: three commitments inserted and saved, the storage dropped
\* and just reopened with the observed root and three verifying proofs, and
\* the round-trip copy of the reopened tree has no frontier and the same root.
C8_Witness ==
    /\ stOpen /\ stRes.op = "open"
    /\ stSeen.valid /\ stSeen.saved /\ stSeen.len = 3
    /\ stTree.depth = 2 /\ Len(stTree.frontier) = 3
    /\ tree_root(stTree) = stSeen.root
    /\ \A i \in 0..2 : verify(tree_prove(stTree, i), stSeen.root)
    /\ LET r == deserialize_tree(serialize_tree(stTree))
       IN  /\ r.ok /\ r.tree.frontier = << >>
           /\ tree_root(r.tree) = stSeen.root

\* The calls of the facade that take &self.
StReadOps == {"root", "len", "prove", "stats"}

\* C28: root(), len(), prove(i), stats() and save() never change the
\* in-memory tree (leaves, len, root), whether it is empty, partly filled
\* or full, and the four reads leave the files alone as well; save() is
\* idempotent: right after a save() the two files already are what a
\* further save() would leave.
C28_ReadsKeepTree ==
    /\ [][(stRes'.op \in StReadOps \cup {"save"}) =>
            /\ stOpen /\ stOpen'
            /\ stTree'.leaves = stTree.leaves
            /\ tree_root(stTree') = tree_root(stTree)
            /\ stTree' = stTree
            /\ stRes'.op \in StReadOps =>
                   (treeFile' = treeFile /\ treeMetaFile' = treeMetaFile)]_vars
    /\ []((stOpen /\ stRes.op = "save" /\ stRes.ret = "Ok") =>
            /\ write_truncate(treeFile, serialize_tree(stTree)) = treeFile
            /\ write_truncate(treeMetaFile, serialize_tree_metadata(stTree))
                   = treeMetaFile)

\* C28 witness: a full depth-2 tree just saved: the data file is the
\* serialized tree of four leaves and nothing else, the metadata file its
\* root and version.
C28_Witness ==
    /\ stOpen /\ stRes.op = "save" /\ stRes.ret = "Ok"
    /\ stTree.depth = 2 /\ Len(stTree.leaves) = stTree.capacity
    /\ treeFile.exists /\ treeFile.data = serialize_tree(stTree)
    /\ treeMetaFile.data = serialize_tree_metadata(stTree)

\* C28, a read on the empty tree: stats() on a storage just created.
C28_EmptyStats ==
    /\ stOpen /\ stRes.op = "stats" /\ stTree.leaves = << >>
    /\ ~treeFile.exists

\* C28, a read on a partly filled tree: prove(1) has just succeeded on a
\* depth-2 tree with two leaves that was never saved.
C28_ProveNonEmpty ==
    /\ stOpen /\ stRes.op = "prove" /\ stRes.ret = "Ok"
    /\ stTree.depth = 2 /\ Len(stTree.leaves) = 2
    /\ tree_prove(stTree, 1).ok /\ ~treeFile.exists

\* The frontier after the appends of the leaves lv[i..] one by one, as
\* append() performs them: the i-th append sees a tree of i + 1 leaves.
RECURSIVE replay_appends(_, _, _, _, _)
replay_appends(fr, lv, zh, i, d) ==
    IF i >= Len(lv) THEN fr
    ELSE replay_appends(bubble_up(fr, SubSeq(lv, 1, i + 1), i + 1, zh,
                                  At(lv, i), i, 0, d),
                        lv, zh, i + 1, d)

\* The frontier of the tree with the leaves of t, built by appends alone.
frontier_by_appends(t) ==
    replay_appends(tree_with_depth(t.depth).frontier, t.leaves, t.zero_hashes,
                   0, t.depth)

\* C35: for a tree built only by appends, rebuild_frontier() (run by
\* load_tree after deserialization, which leaves the frontier empty)
\* restores the frontier that the appends, replayed one by one, produce,
\* which is the frontier the tree had when it was saved: the tree a storage
\* holds always has that frontier, a tree loaded from the file just saved
\* is the tree in memory in every field, and so an append after the
\* save/load cycle gives the index, root and proofs (of the new leaf and of
\* leaf 0) of the same append without the cycle.
C35_FrontierRebuilt ==
    /\ stOpen =>
           /\ stTree.frontier = frontier_by_appends(stTree)
           /\ tree_rebuild_frontier(stTree).frontier = stTree.frontier
           /\ Len(stTree.frontier) = stTree.depth + 1
    /\ (stOpen /\ stRes.op = "save") =>
           \A d \in 1..MaxDepth :
               LET loaded == load_tree(treeFile.data, d)
               IN  /\ loaded = stTree
                   /\ Len(stTree.leaves) < stTree.capacity =>
                          \A c \in Commitments :
                              LET a == tree_append(loaded, serialize_commitment(c))
                                  b == tree_append(stTree, serialize_commitment(c))
                                  index == Len(stTree.leaves)
                              IN  /\ Len(a.leaves) = index + 1
                                  /\ Len(b.leaves) = index + 1
                                  /\ a.frontier = b.frontier
                                  /\ tree_root(a) = tree_root(b)
                                  /\ tree_prove(a, index) = tree_prove(b, index)
                                  /\ tree_prove(a, 0) = tree_prove(b, 0)
    /\ (stOpen /\ stRes.op = "open" /\ treeFile.exists) =>
           /\ deserialize_tree(treeFile.data).ok
           /\ deserialize_tree(treeFile.data).tree.frontier = << >>
           /\ stTree.leaves = deserialize_tree(treeFile.data).tree.leaves

\* C35 witness: a storage reopened on a file that holds two different
\* leaves, then appended to: the frontier is the one the three appends
\* produce, it differs from the reset frontier, and the root is that of the
\* three leaves.
C35_Witness ==
    /\ stOpen /\ stRes.op = "insert_commitment" /\ stRes.ret = "Ok"
    /\ treeFile.exists
    /\ Len(deserialize_tree(treeFile.data).tree.leaves) = 2
    /\ Len(stTree.leaves) = 3 /\ stTree.depth = 2
    /\ stTree.leaves[1] # stTree.leaves[2]
    /\ SubSeq(stTree.leaves, 1, 2) = deserialize_tree(treeFile.data).tree.leaves
    /\ stTree.frontier = frontier_by_appends(stTree)
    /\ stTree.frontier # tree_with_depth(2).frontier

\* C35, the load itself: a storage has just been opened on a file with two
\* different leaves; its frontier is not the reset one.
C35_LoadedWitness ==
    /\ stOpen /\ stRes.op = "open" /\ treeFile.exists
    /\ Len(stTree.leaves) = 2 /\ stTree.leaves[1] # stTree.leaves[2]
    /\ stTree.frontier = frontier_by_appends(stTree)
    /\ stTree.frontier # tree_with_depth(stTree.depth).frontier

\* The last leaf of the tree after insert_commitment(c) on the open tree.
inserted_leaf(c) ==
    LET t == tree_append(stTree, serialize_commitment(c))
    IN  t.leaves[Len(t.leaves)]

\* C40: the leaf stored for an inserted commitment binds every field of the
\* commitment: two commitments that differ in any field, inserted at the
\* same position of identical trees, give different leaf hashes and
\* different roots.
C40_LeafBindsEveryField ==
    (stOpen /\ Len(stTree.leaves) < stTree.capacity) =>
        \A c1 \in Commitments : \A c2 \in Commitments \ {c1} :
            /\ inserted_leaf(c1) # inserted_leaf(c2)
            /\ tree_root(tree_append(stTree, serialize_commitment(c1)))
                   # tree_root(tree_append(stTree, serialize_commitment(c2)))

\* C40, the case: insert_commitment has just stored a leaf, and a
\* commitment with another nullifier and otherwise the same fields, whose
\* serialization differs, gives that same leaf and the same root at that
\* position.
C40_NullifierNotBound ==
    /\ stOpen /\ stRes.op = "insert_commitment" /\ stRes.ret = "Ok"
    /\ Len(stTree.leaves) > 0
    /\ \E c1 \in Commitments : \E c2 \in Commitments :
           LET before == [stTree EXCEPT
                              !.leaves = SubSeq(stTree.leaves, 1, Len(stTree.leaves) - 1)]
               t1 == tree_append(before, serialize_commitment(c1))
               t2 == tree_append(before, serialize_commitment(c2))
           IN  /\ c1.nullifier # c2.nullifier
               /\ [c1 EXCEPT !.nullifier = c2.nullifier] = c2
               /\ serialize_commitment(c1) # serialize_commitment(c2)
               /\ t1.leaves = stTree.leaves
               /\ t2.leaves = stTree.leaves
               /\ tree_root(t1) = tree_root(stTree)
               /\ tree_root(t2) = tree_root(stTree)

\* C40, the fields inside the prefix: commitments that differ in
\* commitment_index give different leaves and different roots.
C40_IndexBound ==
    (stOpen /\ Len(stTree.leaves) < stTree.capacity) =>
        \A c1 \in Commitments : \A c2 \in Commitments :
            c1.commitment_index # c2.commitment_index =>
                /\ inserted_leaf(c1) # inserted_leaf(c2)
                /\ tree_root(tree_append(stTree, serialize_commitment(c1)))
                       # tree_root(tree_append(stTree, serialize_commitment(c2)))

-----------------------------------------------------------------------------
(* Claims about the commitment codec *)

\* Byte k (0 the least significant) of the unsigned integer v.
RECURSIVE ByteOf(_, _)
ByteOf(v, k) == IF k = 0 THEN v % 256 ELSE ByteOf(v \div 256, k - 1)

\* C29: for every Commitment c, to_bytes(c) is exactly 108 bytes, the
\* version as u32 little-endian, the commitment_index as u64 little-endian,
\* then hash, random_secret and nullifier as raw 32-byte values; and
\* from_bytes(to_bytes(c)) succeeds and returns a commitment equal to c in
\* all five fields.
C29_CodecRoundTrip ==
    /\ (cmtRes.op = "to_bytes") =>
           /\ Len(cmtData) = 108
           /\ \A k \in 0..3 :
                  At(cmtData, k) = ByteOf(cmtValue.version, k)
           /\ \A k \in 0..7 :
                  At(cmtData, 4 + k) = ByteOf(cmtValue.commitment_index, k)
           /\ \A k \in 0..31 :
                  /\ At(cmtData, 12 + k) = At(cmtValue.hash, k)
                  /\ At(cmtData, 44 + k) = At(cmtValue.random_secret, k)
                  /\ At(cmtData, 76 + k) = At(cmtValue.nullifier, k)
    /\ (cmtRes.op = "from_bytes" /\ cmtData = to_bytes(cmtValue)) =>
           /\ cmtRes.ret = "Ok"
           /\ cmtRes.commitment.version = cmtValue.version
           /\ cmtRes.commitment.commitment_index = cmtValue.commitment_index
           /\ cmtRes.commitment.hash = cmtValue.hash
           /\ cmtRes.commitment.random_secret = cmtValue.random_secret
           /\ cmtRes.commitment.nullifier = cmtValue.nullifier

\* C29 witness: a commitment whose five fields all differ from one another
\* and whose scalars fill more than one byte has been encoded and decoded
\* again, and the result equals it.
C29_Witness ==
    /\ cmtRes.op = "from_bytes" /\ cmtRes.ret = "Ok"
    /\ cmtData = to_bytes(cmtValue)
    /\ cmtValue.version = 258 /\ cmtValue.commitment_index = 2147483647
    /\ cmtValue.hash # cmtValue.random_secret
    /\ cmtValue.random_secret # cmtValue.nullifier
    /\ cmtValue.hash # cmtValue.nullifier
    /\ cmtRes.commitment = cmtValue

-----------------------------------------------------------------------------
(* Claims about the page store and the page cache *)

\* What read_leaf_from_disk returns for a slot: None for a slot never
\* written, Some(h) for a slot holding h.
stored(slot) ==
    IF slot = NoLeaf THEN [some |-> FALSE] ELSE [some |-> TRUE, hash |-> slot[1]]

\* C32: read-after-write of the page store: after any sequence of leaf
\* writes (through the mapping or through the page cache, for every cache
\* size, with evictions in between), read_leaf_from_disk(i) returns Some(h)
\* for the hash h most recently written at i and None for an index never
\* written; this holds for every index at once, so a write at i never
\* changes what is read at another index.
C32_ReadAfterWrite ==
    /\ \A i \in DOMAIN pgWritten :
           read_leaf_from_disk(pgFile, pgCache, i).res = stored(pgWritten[i])
    /\ (pgRes.op = "read" /\ pgRes.ret = "Ok") =>
           pgRes.value = stored(pgWritten[pgRes.index])

\* What the code does instead: a leaf no call has written is read as
\* Some(h).  write_leaf_to_disk failed in write_page_to_disk for that leaf,
\* the cached page kept the hash (the dirty page of C33), and the read is
\* served from the cache while leaves.dat has an empty slot.
C32_ReadsFailedWrite ==
    /\ pgRes.op = "read" /\ pgRes.ret = "Ok"
    /\ pgRes.value.some
    /\ pgWritten[pgRes.index] = NoLeaf
    /\ ~page_read(pgFile[pgRes.index \div LeavesPerPage],
                  pgRes.index % LeavesPerPage).some

\* C34: the PageCache evicts in least-recently-used order: a get hit moves
\* the page to the most-recently-used end of access_order, and whenever
\* insert evicts, the pages it evicts are the cached pages whose last
\* access (get hit or insert) is the oldest.
C34_EvictsLeastRecentlyUsed ==
    /\ (pgRes.op = "get" /\ pgRes.ret = "Some") =>
           /\ pgCache.access_order # << >>
           /\ pgCache.access_order[Len(pgCache.access_order)] = pgRes.page_id
    /\ (pgRes.op = "insert" /\ pgRes.evicted # << >>) =>
           pgRes.evicted = SubSeq(pgRes.recent, 1, Len(pgRes.evicted))

\* What the code does instead: an insert of a page id that was cached left
\* the id twice in access_order (C39); a later insert evicted that page at
\* the position of its first, outdated entry, to make room for a new page,
\* although another cached page had been accessed less recently.
C34_EvictsRecentlyUsed ==
    /\ pgRes.op = "insert" /\ ~pgRes.cached /\ Len(pgRes.evicted) = 1
    /\ Len(pgRes.recent) = pgCache.max_size
    /\ pgRes.evicted[1] \notin DOMAIN pgCache.pages
    /\ pgRes.evicted[1] # pgRes.recent[1]
    /\ pgRes.recent[1] \in DOMAIN pgCache.pages

\* C38: capacity bound of the cache: after any sequence of PageCache
\* operations the number of cached pages never exceeds max_pages, for every
\* max_pages >= 0.
C38_CapacityBound ==
    Cardinality(DOMAIN pgCache.pages) <= pgCache.max_size

\* What the code does instead: a cache created with max_pages = 0 holds a
\* page after an insert.
C38_OverCapacity ==
    /\ pgCache.max_size = 0
    /\ pgRes.op = "insert"
    /\ Cardinality(DOMAIN pgCache.pages) = 1
    /\ pgCache.access_order = << pgRes.page_id >>

\* C38, the part the code keeps: a cache with max_pages >= 1 is full and
\* has just evicted a page to stay within max_pages.
C38_FullWithinBound ==
    /\ pgCache.max_size >= 1
    /\ pgRes.op = "insert" /\ pgRes.evicted # << >>
    /\ Cardinality(DOMAIN pgCache.pages) = pgCache.max_size

\* C39: bookkeeping of the cache: after any sequence of PageCache
\* operations (insert of an already cached page id included), access_order
\* holds exactly the ids of the cached pages, each exactly once.
C39_OrderMatchesPages ==
    /\ { pgCache.access_order[k] : k \in 1..Len(pgCache.access_order) }
           = DOMAIN pgCache.pages
    /\ Len(pgCache.access_order) = Cardinality(DOMAIN pgCache.pages)

\* What the code does instead: insert was called for a page id that was
\* cached and no eviction removed it; the id is in access_order twice.
C39_DuplicateId ==
    /\ pgRes.op = "insert" /\ pgRes.cached
    /\ pgRes.page_id \in DOMAIN pgCache.pages
    /\ Len(pgCache.access_order) > Cardinality(DOMAIN pgCache.pages)
    /\ \E j, k \in 1..Len(pgCache.access_order) :
           j # k /\ pgCache.access_order[j] = pgRes.page_id
                 /\ pgCache.access_order[k] = pgRes.page_id

====
